---- MODULE Spec2Model ----
(***************************************************************************)
(* A model of the brain CLI handle of rhachet-brains-anthropic:            *)
(*   - genBrainCli.ts: the process supervisor (boot, kill, ask, act,       *)
(*     terminal) and the handle state it closes over;                      *)
(*   - getOneBrainOutputFromStreamJson.ts: the nd-JSON stream decoder, the *)
(*     accounting finalizer and the series/episode reconciler;             *)
(*   - getOneDispatchArgs.ts / getOneInteractArgs.ts: the argv builders.   *)
(*                                                                         *)
(* JavaScript values are represented as follows: a string is a TLA+        *)
(* string; a null in a string-typed slot is Null; a null or undefined in a *)
(* number-typed slot is NullNum; a null object is NullObj; an array is a   *)
(* sequence; an object is a record; object identity of a spawned process   *)
(* is its index in procs.                                                  *)
(*                                                                         *)
(* The caller awaits ask and act one at a time, as the handle's contract   *)
(* requires; boot and kill may be called while an ask/act is in flight.    *)
(* The memory.series setter is an assignment by the caller and is not an   *)
(* action here. Prices and costs are whole numbers.                        *)
(***************************************************************************)
EXTENDS Integers, Sequences, FiniteSets, TLC

VARIABLES
  instance,      \* executor.instance: NullObj or [pid, mode]
  series,        \* the durable series: NullObj or a BrainSeries
  lastTaskMode,  \* Null, "ask" or "act"
  childProcess,  \* 0 (null) or the index of a pipe process
  ptyProcess,    \* 0 (null) or the index of a pty process
  dataListeners, \* registered data callbacks, in registration order
  exitListeners, \* registered exit callbacks, in registration order
  procs,         \* every process spawned so far, in spawn order
  streams,       \* streams[0]: a caller-supplied Readable; streams[p]: stdout of process p
  call,          \* the caller's position: idle, inside boot(interact), or inside ask/act
  decoder,       \* the decoder bound by the current getOneBrainOutputFromStreamJson call
  outcome,       \* what the step just taken returned or threw to the caller, if anything
  effects        \* what the step just taken did to processes and callbacks, in order

vars == <<instance, series, lastTaskMode, childProcess, ptyProcess,
          dataListeners, exitListeners, procs, streams, call, decoder, outcome, effects>>

handleVars == <<instance, series, lastTaskMode, childProcess, ptyProcess,
                dataListeners, exitListeners, procs>>

----------------------------------------------------------------------------
(* Bounds of the model.                                                    *)

MaxProcs == 3      \* processes spawned by one handle
MaxCalls == 3      \* ask/act calls that reach the write to stdin
MaxChunks == 2     \* chunks one stream emits
MaxListeners == 1  \* callbacks per registry
MaxCategoryProcs == 4   \* processes spawned where no process answers

----------------------------------------------------------------------------
(* JavaScript nulls.                                                       *)

Null == "<null>"
NullNum == -1
NullObj == [null |-> TRUE]

\* a ?? b on strings
CoalesceStr(a, b) == IF a # Null THEN a ELSE b
\* a ?? b on numbers
CoalesceNum(a, b) == IF a # NullNum THEN a ELSE b

----------------------------------------------------------------------------
(* String helpers: String.prototype.startsWith, trim, split('\n').         *)

StartsWith(s, prefix) ==
  /\ Len(s) >= Len(prefix)
  /\ SubSeq(s, 1, Len(prefix)) = prefix

IsSpace(c) == c \in {" ", "\n", "\r", "\t"}

RECURSIVE TrimStart(_)
TrimStart(s) ==
  IF Len(s) > 0 /\ IsSpace(SubSeq(s, 1, 1))
  THEN TrimStart(SubSeq(s, 2, Len(s)))
  ELSE s

RECURSIVE TrimEnd(_)
TrimEnd(s) ==
  IF Len(s) > 0 /\ IsSpace(SubSeq(s, Len(s), Len(s)))
  THEN TrimEnd(SubSeq(s, 1, Len(s) - 1))
  ELSE s

Trim(s) == TrimEnd(TrimStart(s))

\* s.split('\n'): the pieces between newlines; always at least one piece
NewlinesOf(s) == {i \in 1..Len(s) : SubSeq(s, i, i) = "\n"}

RECURSIVE SplitLines(_)
SplitLines(s) ==
  IF NewlinesOf(s) = {} THEN <<s>>
  ELSE LET i == CHOOSE n \in NewlinesOf(s) : \A m \in NewlinesOf(s) : n <= m
       IN <<SubSeq(s, 1, i - 1)>> \o SplitLines(SubSeq(s, i + 1, Len(s)))

\* parts.join(sep)
RECURSIVE Join(_, _)
Join(parts, sep) ==
  IF Len(parts) = 0 THEN ""
  ELSE IF Len(parts) = 1 THEN parts[1]
  ELSE parts[1] \o sep \o Join(Tail(parts), sep)

\* the last element of an array, or the default when it is empty
Last(seq, default) == IF Len(seq) = 0 THEN default ELSE seq[Len(seq)]

\* the array without its last element: seq.slice(0, -1)
Front(seq) == IF Len(seq) = 0 THEN <<>> ELSE SubSeq(seq, 1, Len(seq) - 1)

----------------------------------------------------------------------------
(* Domain objects of rhachet and the digest.                               *)

(* Buffer.prototype.toString() and its inverse. A byte is written as one    *)
(* character; "^" and "~" stand for the lead and the continuation byte of a *)
(* two-byte UTF-8 sequence, "@" for the character they encode, "?" for      *)
(* U+FFFD, which toString() yields for a byte that is not part of a         *)
(* complete sequence.                                                       *)
Utf8Bytes(s) == {i \in 1..Len(s) : SubSeq(s, i, i) \in {"^", "~"}}

RECURSIVE BufferToString(_)
BufferToString(bytes) ==
  IF Utf8Bytes(bytes) = {} THEN bytes
  ELSE LET i == CHOOSE n \in Utf8Bytes(bytes) : \A m \in Utf8Bytes(bytes) : n <= m
           whole == /\ SubSeq(bytes, i, i) = "^"
                    /\ i < Len(bytes)
                    /\ SubSeq(bytes, i + 1, i + 1) = "~"
       IN SubSeq(bytes, 1, i - 1) \o (IF whole THEN "@" ELSE "?")
            \o BufferToString(SubSeq(bytes, IF whole THEN i + 2 ELSE i + 1, Len(bytes)))

\* Buffer.from(s): the bytes the CLI writes for a text
RECURSIVE BufferFrom(_)
BufferFrom(s) ==
  LET wide == {i \in 1..Len(s) : SubSeq(s, i, i) = "@"}
  IN IF wide = {} THEN s
     ELSE LET i == CHOOSE n \in wide : \A m \in wide : n <= m
          IN SubSeq(s, 1, i - 1) \o "^~" \o BufferFrom(SubSeq(s, i + 1, Len(s)))

\* sha256 hex digest; collision-free, so modelled as a tagged copy of the input
sha256(value) == "#(" \o value \o ")"

BrainExchange(hash, input, output, exid) ==
  [hash |-> hash, input |-> input, output |-> output, exid |-> exid]

BrainEpisode(hash, exid, exchanges) ==
  [hash |-> hash, exid |-> exid, exchanges |-> exchanges]

BrainSeries(hash, exid, episodes) ==
  [hash |-> hash, exid |-> exid, episodes |-> episodes]

----------------------------------------------------------------------------
(* The nd-JSON envelopes of the CLI's stream-json output, decoded.         *)

NoUsage ==
  [present |-> FALSE, input_tokens |-> NullNum, output_tokens |-> NullNum,
   cache_creation_input_tokens |-> NullNum, cache_read_input_tokens |-> NullNum]

Usage(i, o, cset, cget) ==
  [present |-> TRUE, input_tokens |-> i, output_tokens |-> o,
   cache_creation_input_tokens |-> cset, cache_read_input_tokens |-> cget]

\* the nested anthropic API event of a stream_event envelope
NoInner == [present |-> FALSE, type |-> Null, delta_type |-> Null,
            delta_text |-> Null, usage |-> NoUsage]

Inner(type, deltaType, deltaText, usage) ==
  [present |-> TRUE, type |-> type, delta_type |-> deltaType,
   delta_text |-> deltaText, usage |-> usage]

\* an envelope of the given type with every optional field absent
Envelope(type) ==
  [type |-> type, session_id |-> Null, subtype |-> Null, result |-> Null,
   cost_usd |-> NullNum, total_cost |-> NullNum, duration_ms |-> NullNum,
   usage |-> NoUsage, content |-> <<>>, event |-> NoInner]

TextBlock(text) == [type |-> "text", text |-> text]
ToolUseBlock == [type |-> "tool_use", text |-> Null]

EnvSystem(sid) == [Envelope("system") EXCEPT !.session_id = sid]
EnvSystemCompact(sid) ==
  [Envelope("system") EXCEPT !.session_id = sid, !.subtype = "compact_boundary"]
EnvCompactBoundary == Envelope("compact_boundary")
EnvAssistant(content, sid, usage) ==
  [Envelope("assistant") EXCEPT !.content = content, !.session_id = sid, !.usage = usage]
EnvResult(result, sid, cost, duration, usage) ==
  [Envelope("result") EXCEPT !.result = result, !.session_id = sid,
                             !.cost_usd = cost, !.duration_ms = duration, !.usage = usage]
EnvTextDelta(text) ==
  [Envelope("stream_event") EXCEPT
     !.event = Inner("content_block_delta", "text_delta", text, NoUsage)]
EnvMessageStart(tokens) ==
  [Envelope("stream_event") EXCEPT
     !.event = Inner("message_start", Null, Null, Usage(tokens, NullNum, NullNum, NullNum))]
EnvMessageDelta(usage) ==
  [Envelope("stream_event") EXCEPT !.event = Inner("message_delta", Null, Null, usage)]
\* an envelope type the decoder has no branch for
EnvUser(sid) == [Envelope("user") EXCEPT !.session_id = sid]

\* the envelopes the modelled CLI emits
Envelopes ==
  { EnvSystem("s1"), EnvSystem("s2"), EnvSystemCompact("s1"), EnvCompactBoundary,
    EnvAssistant(<<TextBlock("t")>>, Null, NoUsage),
    EnvAssistant(<<TextBlock("@")>>, Null, NoUsage),
    EnvAssistant(<<TextBlock("??")>>, Null, NoUsage),
    EnvAssistant(<<TextBlock("u"), ToolUseBlock>>, "s2", Usage(5, 2, 0, 1)),
    EnvResult("r", "s1", 3, 12, NoUsage),
    EnvResult("r", "s2", NullNum, NullNum, Usage(7, 4, 1, 0)),
    EnvResult(Null, Null, 0, NullNum, NoUsage),
    [EnvResult("r", "s1", NullNum, NullNum, Usage(7, 4, 1, 0)) EXCEPT !.total_cost = 2],
    EnvTextDelta("d"), EnvMessageStart(6), EnvMessageDelta(Usage(NullNum, 9, NullNum, NullNum)),
    EnvUser("s2") }

(* JSON.stringify of an envelope, in a compact rendering: one field after  *)
(* the other, null/undefined as "_", strings quoted.                       *)
NumJson(n) == IF n = NullNum THEN "_" ELSE ToString(n)
StrJson(s) == IF s = Null THEN "_" ELSE "'" \o s \o "'"
UsageJson(u) ==
  IF ~u.present THEN "_"
  ELSE "[" \o NumJson(u.input_tokens) \o "," \o NumJson(u.output_tokens) \o ","
           \o NumJson(u.cache_creation_input_tokens) \o ","
           \o NumJson(u.cache_read_input_tokens) \o "]"
RECURSIVE ContentJson(_)
ContentJson(blocks) ==
  IF Len(blocks) = 0 THEN ""
  ELSE "<" \o blocks[1].type \o ":" \o StrJson(blocks[1].text) \o ">"
           \o ContentJson(Tail(blocks))
InnerJson(ev) ==
  IF ~ev.present THEN "_"
  ELSE "(" \o StrJson(ev.type) \o "," \o StrJson(ev.delta_type) \o ","
           \o StrJson(ev.delta_text) \o "," \o UsageJson(ev.usage) \o ")"
Json(e) ==
  "{" \o e.type \o "," \o StrJson(e.session_id) \o "," \o StrJson(e.subtype) \o ","
      \o StrJson(e.result) \o "," \o NumJson(e.cost_usd) \o "," \o NumJson(e.total_cost)
      \o "," \o NumJson(e.duration_ms) \o "," \o UsageJson(e.usage) \o ","
      \o ContentJson(e.content) \o "," \o InnerJson(e.event) \o "}"

\* JSON.parse inside the try/catch of processLine: the envelope, or NotJson when it throws
NotJson == [notjson |-> TRUE]
JsonParse(text) ==
  IF \E e \in Envelopes : Json(e) = text
  THEN CHOOSE e \in Envelopes : Json(e) = text
  ELSE NotJson

----------------------------------------------------------------------------
(* getOneBrainOutputFromStreamJson: the decoder's closure state.           *)

\* the price table of the config's BrainSpec (spec.cost.cash), as IsoPrice strings
SpecRates == [input |-> "$3", output |-> "$15", cacheGet |-> "$1", cacheSet |-> "$4"]

\* Number.parseFloat of a string of decimal digits
RECURSIVE ParseDigits(_, _)
ParseDigits(s, acc) ==
  IF Len(s) = 0 THEN acc
  ELSE LET c == SubSeq(s, 1, 1)
           d == CHOOSE n \in 0..9 : ToString(n) = c
       IN ParseDigits(SubSeq(s, 2, Len(s)), 10 * acc + d)

\* price.replace(/[^0-9.-]/g, ''): keep the digits
RECURSIVE KeepDigits(_)
KeepDigits(s) ==
  IF Len(s) = 0 THEN ""
  ELSE LET c == SubSeq(s, 1, 1)
       IN (IF \E n \in 0..9 : ToString(n) = c THEN c ELSE "")
            \o KeepDigits(SubSeq(s, 2, Len(s)))

getOneNumericFromIsoPrice(price) ==
  LET cleaned == KeepDigits(price)
  IN IF cleaned = "" THEN 0 ELSE ParseDigits(cleaned, 0)

getOneIsoPrice(value) == "$" \o ToString(value)

\* the promise returned by getOneBrainOutputFromStreamJson
PendingPromise == [state |-> "pending", value |-> NullObj]
Settle(promise, state, value) ==
  IF promise.state = "pending" THEN [state |-> state, value |-> value] ELSE promise

\* the closure state right after the three handlers are attached
NewDecoder(prompt, stdout, seriesPrior) ==
  [ prompt |-> prompt, stdout |-> stdout, seriesPrior |-> seriesPrior,
    textAccumulated |-> "", sessionId |-> Null,
    tokensInput |-> 0, tokensOutput |-> 0, tokensCacheGet |-> 0, tokensCacheSet |-> 0,
    costUsd |-> NullNum, durationMs |-> NullNum, resultText |-> Null,
    compactionDetected |-> FALSE, resolved |-> FALSE, buffer |-> "",
    attached |-> TRUE,          \* the data/end/error listeners are on stdout
    promise |-> PendingPromise,
    onResolveCalls |-> 0, onRejectCalls |-> 0, detachCalls |-> 0,
    chunks |-> 0,               \* history: the data events stdout emitted since the bind
    received |-> "",            \* history: the bytes handed to onDataHandler
    observed |-> <<>> ]         \* history: the envelopes processLine decoded

NoDecoder == NullObj

\* if (usage.x) counter = usage.x: an absent or zero value leaves the counter alone
Truthy(n) == n # NullNum /\ n # 0

ApplyUsage(d, usage) ==
  IF ~usage.present THEN d
  ELSE [d EXCEPT
          !.tokensInput = IF Truthy(usage.input_tokens) THEN usage.input_tokens ELSE @,
          !.tokensOutput = IF Truthy(usage.output_tokens) THEN usage.output_tokens ELSE @,
          !.tokensCacheSet = IF Truthy(usage.cache_creation_input_tokens)
                             THEN usage.cache_creation_input_tokens ELSE @,
          !.tokensCacheGet = IF Truthy(usage.cache_read_input_tokens)
                             THEN usage.cache_read_input_tokens ELSE @]

\* the text of the content blocks that processLine appends, in order
RECURSIVE TextOfBlocks(_)
TextOfBlocks(blocks) ==
  IF Len(blocks) = 0 THEN ""
  ELSE (IF blocks[1].type = "text" /\ blocks[1].text # Null /\ blocks[1].text # ""
        THEN blocks[1].text ELSE "")
         \o TextOfBlocks(Tail(blocks))

processStreamEvent(d, event) ==
  CASE event.type = "message_start" ->
         IF event.usage.present /\ Truthy(event.usage.input_tokens)
         THEN [d EXCEPT !.tokensInput = event.usage.input_tokens]
         ELSE d
    [] event.type = "content_block_delta" ->
         IF event.delta_type = "text_delta" /\ event.delta_text # Null /\ event.delta_text # ""
         THEN [d EXCEPT !.textAccumulated = @ \o event.delta_text]
         ELSE d
    [] event.type = "message_delta" -> ApplyUsage(d, event.usage)
    [] OTHER -> d

----------------------------------------------------------------------------
(* finalize: the accounting finalizer and the series/episode reconciler.   *)

EpisodesPrior(seriesPrior) ==
  IF seriesPrior = NullObj THEN <<>> ELSE seriesPrior.episodes

EpisodeLatest(seriesPrior) == Last(EpisodesPrior(seriesPrior), NullObj)

\* a continuation test that does not compare identifiers
IsSameContextWindowAnyExid(seriesPrior, sessionId, compactionDetected) ==
  /\ ~compactionDetected
  /\ EpisodeLatest(seriesPrior) # NullObj
  /\ sessionId # Null

IsSameContextWindow(seriesPrior, sessionId, compactionDetected) ==
  /\ ~compactionDetected
  /\ EpisodeLatest(seriesPrior) # NullObj
  /\ sessionId # Null
  /\ EpisodeLatest(seriesPrior).exid = sessionId

IsCompactionSplit(seriesPrior, sessionId, compactionDetected) ==
  /\ ~IsSameContextWindow(seriesPrior, sessionId, compactionDetected)
  /\ compactionDetected
  /\ sessionId # Null
  /\ EpisodeLatest(seriesPrior) # NullObj
  /\ EpisodeLatest(seriesPrior).exid # Null
  /\ \/ EpisodeLatest(seriesPrior).exid = sessionId
     \/ StartsWith(EpisodeLatest(seriesPrior).exid, sessionId \o "/")

\* an episode identifier without the split suffix
EpisodeExidPlain(seriesPrior, sessionId, compactionDetected) == sessionId

EpisodeExid(seriesPrior, sessionId, compactionDetected) ==
  IF IsCompactionSplit(seriesPrior, sessionId, compactionDetected)
  THEN sessionId \o "/" \o ToString(Len(EpisodesPrior(seriesPrior)))
  ELSE sessionId

RECURSIVE HashesOf(_)
HashesOf(exchanges) ==
  IF Len(exchanges) = 0 THEN <<>> ELSE <<exchanges[1].hash>> \o HashesOf(Tail(exchanges))

\* an episode that always holds the new exchange alone
EpisodeForFresh(seriesPrior, sessionId, compactionDetected, exchange) ==
  BrainEpisode(sha256(CoalesceStr(sessionId, "ephemeral") \o ":" \o exchange.hash),
               EpisodeExid(seriesPrior, sessionId, compactionDetected),
               <<exchange>>)

\* an episode that keeps the hash of the latest episode when it appends to it
EpisodeForStaleHash(seriesPrior, sessionId, compactionDetected, exchange) ==
  IF IsSameContextWindow(seriesPrior, sessionId, compactionDetected)
  THEN BrainEpisode(EpisodeLatest(seriesPrior).hash,
                    EpisodeExid(seriesPrior, sessionId, compactionDetected),
                    Append(EpisodeLatest(seriesPrior).exchanges, exchange))
  ELSE BrainEpisode(sha256(CoalesceStr(sessionId, "ephemeral") \o ":" \o exchange.hash),
                    EpisodeExid(seriesPrior, sessionId, compactionDetected),
                    <<exchange>>)

\* the episode that receives the exchange
EpisodeFor(seriesPrior, sessionId, compactionDetected, exchange) ==
  IF IsSameContextWindow(seriesPrior, sessionId, compactionDetected)
  THEN LET exchanges == Append(EpisodeLatest(seriesPrior).exchanges, exchange)
       IN BrainEpisode(sha256(sessionId \o ":" \o Join(HashesOf(exchanges), ":")),
                       EpisodeExid(seriesPrior, sessionId, compactionDetected),
                       exchanges)
  ELSE BrainEpisode(sha256(CoalesceStr(sessionId, "ephemeral") \o ":" \o exchange.hash),
                    EpisodeExid(seriesPrior, sessionId, compactionDetected),
                    <<exchange>>)

\* an episode list that always grows
EpisodesForSeriesAppends(seriesPrior, sessionId, compactionDetected, episode) ==
  Append(EpisodesPrior(seriesPrior), episode)

\* an episode list that starts over whenever a new episode is opened
EpisodesForSeriesRestarts(seriesPrior, sessionId, compactionDetected, episode) ==
  IF IsSameContextWindow(seriesPrior, sessionId, compactionDetected)
  THEN Append(Front(EpisodesPrior(seriesPrior)), episode)
  ELSE <<episode>>

\* replace the latest episode if same context window, else append the new one
EpisodesForSeries(seriesPrior, sessionId, compactionDetected, episode) ==
  IF IsSameContextWindow(seriesPrior, sessionId, compactionDetected)
  THEN Append(Front(EpisodesPrior(seriesPrior)), episode)
  ELSE Append(EpisodesPrior(seriesPrior), episode)

\* a series named after the episode that received the exchange
SeriesForEpisodeExid(sessionId, episodes) ==
  BrainSeries(sha256(CoalesceStr(sessionId, "ephemeral")),
              episodes[Len(episodes)].exid, episodes)

SeriesFor(sessionId, episodes) ==
  BrainSeries(sha256(CoalesceStr(sessionId, "ephemeral")), sessionId, episodes)

OutputText(d) == IF d.resultText # Null THEN d.resultText ELSE d.textAccumulated

\* metrics whose total takes the vendor cost only when it is truthy
MetricsForTruthyCost(d) ==
  LET costInput == getOneNumericFromIsoPrice(SpecRates.input) * d.tokensInput
      costOutput == getOneNumericFromIsoPrice(SpecRates.output) * d.tokensOutput
      costCacheGet == getOneNumericFromIsoPrice(SpecRates.cacheGet) * d.tokensCacheGet
      costCacheSet == getOneNumericFromIsoPrice(SpecRates.cacheSet) * d.tokensCacheSet
      costTotalNum == IF Truthy(d.costUsd) THEN d.costUsd
                      ELSE costInput + costOutput + costCacheGet + costCacheSet
  IN [ tokens |-> [input |-> d.tokensInput, output |-> d.tokensOutput,
                   cacheGet |-> d.tokensCacheGet, cacheSet |-> d.tokensCacheSet],
       chars |-> [input |-> Len(d.prompt), output |-> Len(OutputText(d))],
       time |-> IF d.durationMs # NullNum THEN d.durationMs ELSE 0,
       cash |-> [total |-> getOneIsoPrice(costTotalNum),
                 input |-> getOneIsoPrice(costInput), output |-> getOneIsoPrice(costOutput),
                 cacheGet |-> getOneIsoPrice(costCacheGet),
                 cacheSet |-> getOneIsoPrice(costCacheSet)] ]

MetricsFor(d) ==
  LET costInput == getOneNumericFromIsoPrice(SpecRates.input) * d.tokensInput
      costOutput == getOneNumericFromIsoPrice(SpecRates.output) * d.tokensOutput
      costCacheGet == getOneNumericFromIsoPrice(SpecRates.cacheGet) * d.tokensCacheGet
      costCacheSet == getOneNumericFromIsoPrice(SpecRates.cacheSet) * d.tokensCacheSet
      costTotalNum == CoalesceNum(d.costUsd, costInput + costOutput + costCacheGet + costCacheSet)
  IN [ tokens |-> [input |-> d.tokensInput, output |-> d.tokensOutput,
                   cacheGet |-> d.tokensCacheGet, cacheSet |-> d.tokensCacheSet],
       chars |-> [input |-> Len(d.prompt), output |-> Len(OutputText(d))],
       time |-> IF d.durationMs # NullNum THEN d.durationMs ELSE 0,
       cash |-> [total |-> getOneIsoPrice(costTotalNum),
                 input |-> getOneIsoPrice(costInput), output |-> getOneIsoPrice(costOutput),
                 cacheGet |-> getOneIsoPrice(costCacheGet),
                 cacheSet |-> getOneIsoPrice(costCacheSet)] ]

BrainOutputFor(d) ==
  LET exchange == BrainExchange(sha256(d.prompt \o ":" \o OutputText(d)),
                                d.prompt, OutputText(d), Null)
      episode == EpisodeFor(d.seriesPrior, d.sessionId, d.compactionDetected, exchange)
      episodes == EpisodesForSeries(d.seriesPrior, d.sessionId, d.compactionDetected, episode)
  IN [ output |-> OutputText(d), metrics |-> MetricsFor(d),
       episode |-> episode, series |-> SeriesFor(d.sessionId, episodes) ]

\* a detach that is counted but leaves the three handlers on the stream
detachListenersLeavesHandlers(d) == [d EXCEPT !.detachCalls = @ + 1]

\* removeListener of the three handlers
detachListeners(d) == [d EXCEPT !.attached = FALSE, !.detachCalls = @ + 1]

\* a finalize that settles but leaves the resolved flag down
finalizeUnmarked(d) ==
  IF d.resolved THEN d
  ELSE LET d1 == detachListeners(d)
       IN [d1 EXCEPT !.promise = Settle(@, "fulfilled", BrainOutputFor(d)),
                     !.onResolveCalls = @ + 1]

finalize(d) ==
  IF d.resolved THEN d
  ELSE LET d1 == detachListeners([d EXCEPT !.resolved = TRUE])
       IN [d1 EXCEPT !.promise = Settle(@, "fulfilled", BrainOutputFor(d)),
                     !.onResolveCalls = @ + 1]

----------------------------------------------------------------------------
(* processLine and the three stream handlers.                              *)

\* a processLine that surfaces a line JSON.parse throws on as a rejection
processLineSurfaces(d, line) ==
  LET trimmed == Trim(line)
      event == JsonParse(trimmed)
  IN IF trimmed = "" THEN d
     ELSE IF event = NotJson
     THEN LET d1 == detachListeners([d EXCEPT !.resolved = TRUE])
          IN [d1 EXCEPT !.promise = Settle(@, "rejected", [error |-> "malformed line"]),
                        !.onRejectCalls = @ + 1]
     ELSE LET seen == [d EXCEPT !.observed = Append(@, event)]
          IN CASE event.type = "result" ->
                    LET d1 == [seen EXCEPT
                                 !.sessionId = CoalesceStr(event.session_id, @),
                                 !.costUsd = CoalesceNum(event.cost_usd, @),
                                 !.durationMs = CoalesceNum(event.duration_ms, @),
                                 !.resultText = CoalesceStr(event.result, @)]
                        d2 == ApplyUsage(d1, event.usage)
                        d3 == IF event.total_cost # NullNum /\ d2.costUsd = NullNum
                              THEN [d2 EXCEPT !.costUsd = event.total_cost]
                              ELSE d2
                    IN finalize(d3)
               [] event.type = "assistant" ->
                    LET d1 == [seen EXCEPT !.textAccumulated = @ \o TextOfBlocks(event.content)]
                        d2 == ApplyUsage(d1, event.usage)
                    IN [d2 EXCEPT !.sessionId = CoalesceStr(event.session_id, @)]
               [] event.type = "stream_event" ->
                    IF ~event.event.present THEN seen
                    ELSE processStreamEvent(seen, event.event)
               [] event.type = "system" ->
                    [seen EXCEPT !.sessionId = CoalesceStr(event.session_id, @),
                                 !.compactionDetected = @ \/ event.subtype = "compact_boundary"]
               [] event.type = "compact_boundary" ->
                    [seen EXCEPT !.compactionDetected = TRUE]
               [] OTHER -> seen

processLine(d, line) ==
  LET trimmed == Trim(line)
      event == JsonParse(trimmed)
  IN IF trimmed = "" THEN d
     ELSE IF event = NotJson THEN d
     ELSE LET seen == [d EXCEPT !.observed = Append(@, event)]
          IN CASE event.type = "result" ->
                    LET d1 == [seen EXCEPT
                                 !.sessionId = CoalesceStr(event.session_id, @),
                                 !.costUsd = CoalesceNum(event.cost_usd, @),
                                 !.durationMs = CoalesceNum(event.duration_ms, @),
                                 !.resultText = CoalesceStr(event.result, @)]
                        d2 == ApplyUsage(d1, event.usage)
                        d3 == IF event.total_cost # NullNum /\ d2.costUsd = NullNum
                              THEN [d2 EXCEPT !.costUsd = event.total_cost]
                              ELSE d2
                    IN finalize(d3)
               [] event.type = "assistant" ->
                    LET d1 == [seen EXCEPT !.textAccumulated = @ \o TextOfBlocks(event.content)]
                        d2 == ApplyUsage(d1, event.usage)
                    IN [d2 EXCEPT !.sessionId = CoalesceStr(event.session_id, @)]
               [] event.type = "stream_event" ->
                    IF ~event.event.present THEN seen
                    ELSE processStreamEvent(seen, event.event)
               [] event.type = "system" ->
                    [seen EXCEPT !.sessionId = CoalesceStr(event.session_id, @),
                                 !.compactionDetected = @ \/ event.subtype = "compact_boundary"]
               [] event.type = "compact_boundary" ->
                    [seen EXCEPT !.compactionDetected = TRUE]
               [] OTHER -> seen

\* for (const line of lines) { processLine(line); if (resolved) return; }
RECURSIVE ProcessLines(_, _)
ProcessLines(d, lines) ==
  IF Len(lines) = 0 THEN d
  ELSE LET d1 == processLine(d, lines[1])
       IN IF d1.resolved THEN d1 ELSE ProcessLines(d1, Tail(lines))

onDataHandler(d, chunk) ==
  IF d.resolved THEN d
  ELSE LET lines == SplitLines(d.buffer \o BufferToString(chunk))
       IN ProcessLines([d EXCEPT !.buffer = Last(lines, "")], Front(lines))

\* an end handler that drains the buffer but leaves the promise pending
onEndHandlerDrainOnly(d) ==
  IF Trim(d.buffer) # "" THEN processLine(d, d.buffer) ELSE d

\* an end handler that leaves a pending call pending
onEndHandlerIgnores(d) == d

onEndHandler(d) ==
  LET d1 == IF Trim(d.buffer) # "" THEN processLine(d, d.buffer) ELSE d
  IN IF ~d1.resolved THEN finalize(d1) ELSE d1

StreamFaultError == [error |-> "stream error while read of brain output"]

\* an error handler that settles with what was decoded so far
onErrorHandlerFinalizes(d) == finalize(d)

onErrorHandler(d) ==
  IF d.resolved THEN d
  ELSE LET d1 == detachListeners([d EXCEPT !.resolved = TRUE])
       IN [d1 EXCEPT !.promise = Settle(@, "rejected", StreamFaultError),
                     !.onRejectCalls = @ + 1]

----------------------------------------------------------------------------
(* BrainCli.config and the argument builders.                              *)

TOOLS_ASK == <<"Read", "Grep", "Glob", "WebSearch", "WebFetch">>
TOOLS_ACT == <<"Read", "Grep", "Glob", "Edit", "Write", "Bash", "WebSearch", "WebFetch">>

\* config.tools[taskMode]
ConfigTools(taskMode) == IF taskMode = "act" THEN TOOLS_ACT ELSE TOOLS_ASK

\* config.model of the slug the handle was constructed with
ConfigModel == "claude-haiku"

\* a resume test that asks only for a non-null identifier
HasResumeExidNonNull(s) == s # NullObj /\ s.exid # Null

\* input.series?.exid is truthy
HasResumeExid(s) == s # NullObj /\ s.exid # Null /\ s.exid # ""

getOneDispatchArgs(taskMode, s) ==
  <<"-p", "--model", ConfigModel, "--output-format", "stream-json",
    "--input-format", "stream-json", "--verbose",
    "--allowedTools", Join(ConfigTools(taskMode), ",")>>
    \o (IF HasResumeExid(s) THEN <<"--resume", s.exid>> ELSE <<>>)

getOneInteractArgs(s) ==
  <<"--model", ConfigModel>>
    \o (IF HasResumeExid(s) THEN <<"--resume", s.exid>> ELSE <<>>)

----------------------------------------------------------------------------
(* Spawned processes and their stdout streams.                             *)

\* the pty size boot(interact) spawns with
PtyCols == 120
PtyRows == 40

\* a process right after spawn
NewProc(kind, args) ==
  [ kind |-> kind,          \* "pipe" (child_process.spawn) or "pty" (node-pty spawn)
    args |-> args,          \* the argv it was spawned with
    sigterm |-> FALSE,      \* a termination request is pending on it
    exited |-> FALSE ]      \* its exit event has been emitted

Pids == 1..Len(procs)

\* the processes a run may spawn: one per stdout slot the initial state provides
ProcLimit == Cardinality(DOMAIN streams) - 1

\* the value after "--allowedTools" in an argv, or Null
RECURSIVE AllowedToolsOf(_)
AllowedToolsOf(args) ==
  IF Len(args) < 2 THEN Null
  ELSE IF args[1] = "--allowedTools" THEN args[2]
  ELSE AllowedToolsOf(Tail(args))

OpenStream == [state |-> "open"]

(* What one step does to the world outside the handle state, in the order  *)
(* the handler does it: the variable effects holds these for the step just *)
(* taken.                                                                  *)
Spawned(pid, kind, args, size) == [effect |-> "spawn", pid |-> pid, kind |-> kind,
                                   args |-> args, size |-> size]
Signalled(pid) == [effect |-> "kill", pid |-> pid]
\* by: the method that wrote ("ask", "act" or "write")
Wrote(pid, by, message) == [effect |-> "write", pid |-> pid, by |-> by, message |-> message]
Resized(pid, size) == [effect |-> "resize", pid |-> pid, size |-> size]
\* one registered callback invoked with an event of process pid
Called(registry, cb, pid, data) == [effect |-> registry, cb |-> cb, pid |-> pid, data |-> data]

\* for (const cb of listeners) cb(data)
RECURSIVE CallEach(_, _, _, _)
CallEach(registry, listeners, pid, data) ==
  IF Len(listeners) = 0 THEN <<>>
  ELSE <<Called(registry, listeners[1], pid, data)>>
         \o CallEach(registry, Tail(listeners), pid, data)

----------------------------------------------------------------------------
(* The caller's position, and what an operation returned or threw.         *)

IdleCall ==
  [ task |-> "idle",      \* "idle", "rebooted" (ask/act after its category reboot), "await"
    op |-> Null,          \* "ask" or "act" while task # "idle"
    prompt |-> Null,
    count |-> 0,          \* ask/act calls that reached their write
    boot |-> "idle",      \* "import" while boot(interact) awaits the node-pty import
    bootArgs |-> <<>> ]   \* the argv boot(interact) computed before the import

NoOutcome == [op |-> Null, status |-> Null, value |-> NullObj]
Resolved(op, value) == [op |-> op, status |-> "resolved", value |-> value]
Rejected(op, message) == [op |-> op, status |-> "rejected", value |-> [error |-> message]]

\* the prompt of the caller's n-th ask/act
PromptOf(n) == IF n % 2 = 1 THEN "p" ELSE "q"

Init ==
  /\ instance = NullObj
  /\ series = NullObj
  /\ lastTaskMode = Null
  /\ childProcess = 0
  /\ ptyProcess = 0
  /\ dataListeners = <<>>
  /\ exitListeners = <<>>
  /\ procs = <<>>
  /\ streams = [p \in 0..MaxProcs |-> OpenStream]
  /\ call = IdleCall
  /\ decoder = NoDecoder
  /\ outcome = NoOutcome
  /\ effects = <<>>

\* the caller may invoke a synchronous operation or start a boot
CallerFree == call.boot = "idle" /\ call.task \in {"idle", "await"}

\* the caller has no ask/act in flight either (calls are awaited one at a time)
CallerIdle == CallerFree /\ call.task = "idle"

\* the event loop may deliver an event (not inside a microtask hop)
LoopFree == call.task # "rebooted"

----------------------------------------------------------------------------
(* genBrainCli: kill and boot.                                             *)

\* procs after killCurrentProcess has signalled the stored references
KilledProcs ==
  [p \in Pids |->
     IF (childProcess # 0 /\ p = childProcess) \/ (ptyProcess # 0 /\ p = ptyProcess)
     THEN [procs[p] EXCEPT !.sigterm = TRUE]
     ELSE procs[p]]

\* childProcess.kill('SIGTERM'), ptyProcess.kill()
KillEffects ==
  (IF childProcess # 0 THEN <<Signalled(childProcess)>> ELSE <<>>)
    \o (IF ptyProcess # 0 THEN <<Signalled(ptyProcess)>> ELSE <<>>)

killCurrentProcess ==
  /\ procs' = KilledProcs
  /\ instance' = NullObj

\* a kill that also clears the durable series
KillClearsSeries ==
  /\ CallerFree
  /\ killCurrentProcess
  /\ series' = NullObj
  /\ effects' = KillEffects
  /\ outcome' = NoOutcome
  /\ UNCHANGED <<lastTaskMode, childProcess, ptyProcess,
                 dataListeners, exitListeners, streams, call, decoder>>

\* a kill that also invokes the exit callbacks for the processes it signals
KillFiresExit ==
  /\ CallerFree
  /\ killCurrentProcess
  /\ effects' = KillEffects
       \o (IF childProcess # 0
           THEN CallEach("exit", exitListeners, childProcess, [code |-> 1, signal |-> "SIGTERM"]) ELSE <<>>)
       \o (IF ptyProcess # 0
           THEN CallEach("exit", exitListeners, ptyProcess, [code |-> 0, signal |-> "1"]) ELSE <<>>)
  /\ outcome' = NoOutcome
  /\ UNCHANGED <<series, lastTaskMode, childProcess, ptyProcess,
                 dataListeners, exitListeners, streams, call, decoder>>

\* a kill that also drops the stored references at once
KillClearsRefs ==
  /\ CallerFree
  /\ killCurrentProcess
  /\ childProcess' = 0
  /\ ptyProcess' = 0
  /\ effects' = KillEffects
  /\ outcome' = NoOutcome
  /\ UNCHANGED <<series, lastTaskMode,
                 dataListeners, exitListeners, streams, call, decoder>>

Kill ==
  /\ CallerFree
  /\ killCurrentProcess
  /\ effects' = KillEffects
  /\ outcome' = NoOutcome
  /\ UNCHANGED <<series, lastTaskMode, childProcess, ptyProcess,
                 dataListeners, exitListeners, streams, call, decoder>>

\* a boot(dispatch) that spawns with the category of the previous boot: the
\* category ask/act asked for is lost
BootDispatchStale(last) ==
  LET taskMode == IF lastTaskMode # Null THEN lastTaskMode ELSE "ask"
      pid == Len(procs) + 1
  IN /\ lastTaskMode' = taskMode
     /\ procs' = Append(KilledProcs, NewProc("pipe", getOneDispatchArgs(taskMode, series)))
     /\ childProcess' = pid
     /\ instance' = [pid |-> pid, mode |-> "dispatch"]
     /\ effects' = KillEffects
                      \o <<Spawned(pid, "pipe", getOneDispatchArgs(taskMode, series), <<0, 0>>)>>
     /\ UNCHANGED <<ptyProcess, series, dataListeners, exitListeners>>

\* a boot({mode: 'dispatch'}) that starts the new process with empty
\* callback registries
BootDispatchResetsListeners(last) ==
  LET taskMode == IF last # Null THEN last ELSE "ask"
      pid == Len(procs) + 1
  IN /\ lastTaskMode' = taskMode
     /\ procs' = Append(KilledProcs, NewProc("pipe", getOneDispatchArgs(taskMode, series)))
     /\ childProcess' = pid
     /\ instance' = [pid |-> pid, mode |-> "dispatch"]
     /\ effects' = KillEffects
                      \o <<Spawned(pid, "pipe", getOneDispatchArgs(taskMode, series), <<0, 0>>)>>
     /\ dataListeners' = <<>>
     /\ exitListeners' = <<>>
     /\ UNCHANGED <<ptyProcess, series>>

\* a boot({mode: 'dispatch'}) that always spawns read-only
BootDispatchReadOnly(last) ==
  LET pid == Len(procs) + 1
  IN /\ lastTaskMode' = "ask"
     /\ procs' = Append(KilledProcs, NewProc("pipe", getOneDispatchArgs("ask", series)))
     /\ childProcess' = pid
     /\ instance' = [pid |-> pid, mode |-> "dispatch"]
     /\ effects' = KillEffects
                      \o <<Spawned(pid, "pipe", getOneDispatchArgs("ask", series), <<0, 0>>)>>
     /\ UNCHANGED <<ptyProcess, series, dataListeners, exitListeners>>

\* the body of boot({mode: 'dispatch'}), entered with lastTaskMode = last
BootDispatchEffects(last) ==
  LET taskMode == IF last # Null THEN last ELSE "ask"
      pid == Len(procs) + 1
  IN /\ lastTaskMode' = taskMode
     /\ procs' = Append(KilledProcs, NewProc("pipe", getOneDispatchArgs(taskMode, series)))
     /\ childProcess' = pid
     /\ instance' = [pid |-> pid, mode |-> "dispatch"]
     /\ effects' = KillEffects
                      \o <<Spawned(pid, "pipe", getOneDispatchArgs(taskMode, series), <<0, 0>>)>>
     /\ UNCHANGED <<ptyProcess, series, dataListeners, exitListeners>>

BootDispatch ==
  /\ CallerFree
  /\ Len(procs) < ProcLimit
  /\ BootDispatchEffects(lastTaskMode)
  /\ outcome' = NoOutcome
  /\ UNCHANGED <<streams, call, decoder>>

\* boot({mode: 'interact'}) up to its await of the node-pty import
BootInteractBegin ==
  /\ CallerFree
  /\ Len(procs) < ProcLimit
  /\ killCurrentProcess
  /\ call' = [call EXCEPT !.boot = "import", !.bootArgs = getOneInteractArgs(series)]
  /\ effects' = KillEffects
  /\ outcome' = NoOutcome
  /\ UNCHANGED <<series, lastTaskMode, childProcess, ptyProcess,
                 dataListeners, exitListeners, streams, decoder>>

\* boot({mode: 'interact'}) after the import: spawn, record, wire
BootInteractSpawn ==
  /\ call.boot = "import"
  /\ LoopFree
  /\ LET pid == Len(procs) + 1
     IN /\ procs' = Append(procs, NewProc("pty", call.bootArgs))
        /\ ptyProcess' = pid
        /\ instance' = [pid |-> pid, mode |-> "interact"]
        /\ effects' = <<Spawned(pid, "pty", call.bootArgs, <<PtyCols, PtyRows>>)>>
  /\ call' = [call EXCEPT !.boot = "idle", !.bootArgs = <<>>]
  /\ outcome' = NoOutcome
  /\ UNCHANGED <<series, lastTaskMode, childProcess,
                 dataListeners, exitListeners, streams, decoder>>

----------------------------------------------------------------------------
(* The exit hooks of wireChildProcessHooks / wirePtyProcessHooks.          *)

\* the stored reference the exit hook of process p compares itself with
StoredRef(p) == IF procs[p].kind = "pipe" THEN childProcess ELSE ptyProcess

\* the exit hook of p returns early: p is not the stored reference
ExitDiscarded(p) == StoredRef(p) # p

\* the (code, signal) pairs the exit event of p can carry: a process exits by
\* itself, or dies by the signal it was sent (SIGTERM to a pipe process,
\* node-pty's default SIGHUP, number 1, to a pty)
ExitEvents(p) ==
  IF procs[p].kind = "pipe"
  THEN {[code |-> 0, signal |-> Null]}
         \cup (IF procs[p].sigterm THEN {[code |-> NullNum, signal |-> "SIGTERM"]} ELSE {})
  ELSE {[code |-> 0, signal |-> NullNum]}
         \cup (IF procs[p].sigterm THEN {[code |-> 0, signal |-> 1]} ELSE {})

\* the info object handed to the exit callbacks
ExitInfo(p, ev) ==
  IF procs[p].kind = "pipe"
  THEN [code |-> CoalesceNum(ev.code, 1), signal |-> ev.signal]
  ELSE [code |-> ev.code,
        signal |-> IF ev.signal # NullNum THEN ToString(ev.signal) ELSE Null]

\* an exit hook that notifies but leaves the stored reference in place
ProcExitKeepsRef(p) ==
  /\ LoopFree
  /\ p \in Pids
  /\ ~procs[p].exited
  /\ IF ExitDiscarded(p)
     THEN /\ procs' = [procs EXCEPT ![p].exited = TRUE, ![p].sigterm = FALSE]
          /\ effects' = <<>>
          /\ UNCHANGED <<instance, childProcess, ptyProcess>>
     ELSE /\ instance' = NullObj
          /\ procs' = [procs EXCEPT ![p].exited = TRUE, ![p].sigterm = FALSE]
          /\ \E ev \in ExitEvents(p) :
               effects' = CallEach("exit", exitListeners, p, ExitInfo(p, ev))
          /\ UNCHANGED <<childProcess, ptyProcess>>
  /\ outcome' = NoOutcome
  /\ UNCHANGED <<series, lastTaskMode, dataListeners, exitListeners, streams, call, decoder>>

\* an exit hook that clears the process reference and keeps the instance
ProcExitKeepsInstance(p) ==
  /\ LoopFree
  /\ p \in Pids
  /\ ~procs[p].exited
  /\ IF ExitDiscarded(p)
     THEN /\ procs' = [procs EXCEPT ![p].exited = TRUE, ![p].sigterm = FALSE]
          /\ effects' = <<>>
          /\ UNCHANGED <<instance, childProcess, ptyProcess>>
     ELSE /\ childProcess' = IF procs[p].kind = "pipe" THEN 0 ELSE childProcess
          /\ ptyProcess' = IF procs[p].kind = "pty" THEN 0 ELSE ptyProcess
          /\ procs' = [procs EXCEPT ![p].exited = TRUE, ![p].sigterm = FALSE]
          /\ \E ev \in ExitEvents(p) :
               effects' = CallEach("exit", exitListeners, p, ExitInfo(p, ev))
          /\ UNCHANGED instance
  /\ outcome' = NoOutcome
  /\ UNCHANGED <<series, lastTaskMode, dataListeners, exitListeners, streams, call, decoder>>

ProcExit(p) ==
  /\ LoopFree
  /\ p \in Pids
  /\ ~procs[p].exited
  /\ IF ExitDiscarded(p)
     THEN /\ procs' = [procs EXCEPT ![p].exited = TRUE, ![p].sigterm = FALSE]
          /\ effects' = <<>>
          /\ UNCHANGED <<instance, childProcess, ptyProcess>>
     ELSE /\ instance' = NullObj
          /\ childProcess' = IF procs[p].kind = "pipe" THEN 0 ELSE childProcess
          /\ ptyProcess' = IF procs[p].kind = "pty" THEN 0 ELSE ptyProcess
          /\ procs' = [procs EXCEPT ![p].exited = TRUE, ![p].sigterm = FALSE]
          /\ \E ev \in ExitEvents(p) :
               effects' = CallEach("exit", exitListeners, p, ExitInfo(p, ev))
  /\ outcome' = NoOutcome
  /\ UNCHANGED <<series, lastTaskMode, dataListeners, exitListeners, streams, call, decoder>>

----------------------------------------------------------------------------
(* genBrainCli: ask and act.                                               *)

\* a user message that never carries a session id
UserMessageAnonymous(prompt) ==
  [type |-> "user", content |-> prompt, session_id |-> Null]

\* the nd-JSON user message of ask/act; session_id is Null when left out
UserMessage(prompt) ==
  [ type |-> "user", content |-> prompt,
    session_id |-> IF series # NullObj THEN series.exid ELSE Null ]

\* ask/act from the stdin guard on: write the message, bind the decoder, await it
TaskWrite(op, prompt) ==
  IF childProcess = 0
  THEN /\ call' = [call EXCEPT !.task = "idle", !.op = Null, !.prompt = Null]
       /\ outcome' = Rejected(op, "dispatch process has no stdin")
       /\ effects' = <<>>
       /\ UNCHANGED decoder
  ELSE /\ effects' = <<Wrote(childProcess, op, UserMessage(prompt))>>
       /\ decoder' = NewDecoder(prompt, childProcess, series)
       /\ call' = [call EXCEPT !.task = "await", !.op = op, !.prompt = prompt,
                               !.count = @ + 1]
       /\ outcome' = NoOutcome

\* an ask/act without the mode guard: on an interact handle it goes on to the
\* reboot or to the stdin guard
TaskBeginNoModeGuard(op, prompt) ==
  /\ call.task = "idle"
  /\ call.boot = "idle"
  /\ call.count < MaxCalls
  /\ IF instance = NullObj
     THEN /\ outcome' = Rejected(op, "no live process")
          /\ effects' = <<>>
          /\ UNCHANGED <<handleVars, call, decoder>>
     ELSE IF lastTaskMode # op
     THEN /\ Len(procs) < ProcLimit
          /\ BootDispatchEffects(op)
          /\ call' = [call EXCEPT !.task = "rebooted", !.op = op, !.prompt = prompt]
          /\ outcome' = NoOutcome
          /\ UNCHANGED decoder
     ELSE /\ TaskWrite(op, prompt)
          /\ UNCHANGED handleVars
  /\ UNCHANGED streams

\* an ask/act that reboots the dispatch process whatever its category
TaskBeginAlwaysReboots(op, prompt) ==
  /\ call.task = "idle"
  /\ call.boot = "idle"
  /\ call.count < MaxCalls
  /\ IF instance = NullObj
     THEN /\ outcome' = Rejected(op, "no live process")
          /\ effects' = <<>>
          /\ UNCHANGED <<handleVars, call, decoder>>
     ELSE IF instance.mode # "dispatch"
     THEN /\ outcome' = Rejected(op, "handle is in interact mode")
          /\ effects' = <<>>
          /\ UNCHANGED <<handleVars, call, decoder>>
     ELSE IF TRUE
     THEN /\ Len(procs) < ProcLimit
          /\ BootDispatchEffects(op)
          /\ call' = [call EXCEPT !.task = "rebooted", !.op = op, !.prompt = prompt]
          /\ outcome' = NoOutcome
          /\ UNCHANGED decoder
     ELSE /\ TaskWrite(op, prompt)
          /\ UNCHANGED handleVars
  /\ UNCHANGED streams

\* ask(op = "ask") or act(op = "act") up to its first await
TaskBegin(op, prompt) ==
  /\ call.task = "idle"
  /\ call.boot = "idle"
  /\ call.count < MaxCalls
  /\ IF instance = NullObj
     THEN /\ outcome' = Rejected(op, "no live process")
          /\ effects' = <<>>
          /\ UNCHANGED <<handleVars, call, decoder>>
     ELSE IF instance.mode # "dispatch"
     THEN /\ outcome' = Rejected(op, "handle is in interact mode")
          /\ effects' = <<>>
          /\ UNCHANGED <<handleVars, call, decoder>>
     ELSE IF lastTaskMode # op
     THEN \* lastTaskMode = op; await handle.executor.boot({mode: 'dispatch'})
          /\ Len(procs) < ProcLimit
          /\ BootDispatchEffects(op)
          /\ call' = [call EXCEPT !.task = "rebooted", !.op = op, !.prompt = prompt]
          /\ outcome' = NoOutcome
          /\ UNCHANGED decoder
     ELSE /\ TaskWrite(op, prompt)
          /\ UNCHANGED handleVars
  /\ UNCHANGED streams

Ask(prompt) == TaskBegin("ask", prompt)
Act(prompt) == TaskBegin("act", prompt)

\* ask/act resumed after `await handle.executor.boot(...)`
TaskResume ==
  /\ call.task = "rebooted"
  /\ TaskWrite(call.op, call.prompt)
  /\ UNCHANGED <<handleVars, streams>>

----------------------------------------------------------------------------
(* Events of a stdout stream, delivered to the decoder bound to it.        *)

\* chunks a CLI process writes to its stdout
CliChunks ==
  { Json(e) \o "\n" : e \in { EnvSystemCompact("s1"),
                              EnvResult("r", "s1", 3, 12, NoUsage),
                              EnvResult("r", "s2", NullNum, NullNum, Usage(7, 4, 1, 0)) } }

ResultS1 == Json(EnvResult("r", "s1", 3, 12, NoUsage))
ResultS2 == Json(EnvResult("r", "s2", NullNum, NullNum, Usage(7, 4, 1, 0)))

\* the bytes of an assistant line whose text is one two-byte character, and
\* the position of the lead byte in it
WideLine == BufferFrom(Json(EnvAssistant(<<TextBlock("@")>>, Null, NoUsage)))
WideCut == CHOOSE i \in 1..Len(WideLine) : SubSeq(WideLine, i, i) = "^"

\* chunks a caller-supplied Readable emits: whole lines, split lines (one of
\* them split between the two bytes of a character), noise
ReadableChunks ==
  { BufferFrom(Json(e)) \o "\n" : e \in Envelopes }
    \cup { SubSeq(ResultS1, 1, 9), SubSeq(ResultS1, 10, Len(ResultS1)) \o "\n",
           ResultS2, "warn: bleed\n", "\n", "  \r\n",
           SubSeq(WideLine, 1, WideCut),
           SubSeq(WideLine, WideCut + 1, Len(WideLine)) \o "\n",
           Json(EnvCompactBoundary) \o "\n" \o ResultS1 \o "\n" \o ResultS2 \o "\n" }

\* stream p exists: the caller's Readable of a direct call, or stdout of a pipe process
IsStream(p) ==
  \/ p = 0 /\ decoder # NoDecoder /\ decoder.stdout = 0
  \/ p \in Pids /\ procs[p].kind = "pipe"

\* the current decoder was bound to stream p
Bound(p) == decoder # NoDecoder /\ decoder.stdout = p

\* a continuation of ask/act that returns the output but does not store its
\* series in the handle
SettledDropsSeries(d) ==
  IF call.task = "await" /\ d.promise.state = "fulfilled"
  THEN /\ series' = series
       /\ decoder' = NoDecoder
       /\ call' = [call EXCEPT !.task = "idle", !.op = Null, !.prompt = Null]
       /\ outcome' = Resolved(call.op, d.promise.value)
  ELSE IF call.task = "await" /\ d.promise.state = "rejected"
  THEN /\ series' = series
       /\ decoder' = NoDecoder
       /\ call' = [call EXCEPT !.task = "idle", !.op = Null, !.prompt = Null]
       /\ outcome' = Rejected(call.op, d.promise.value.error)
  ELSE /\ decoder' = d
       /\ outcome' = NoOutcome
       /\ UNCHANGED <<series, call>>

\* a settlement that forgets the series when the call rejects
SettledRejectedClears(d) ==
  IF call.task = "await" /\ d.promise.state = "fulfilled"
  THEN /\ series' = d.promise.value.series
       /\ decoder' = NoDecoder
       /\ call' = [call EXCEPT !.task = "idle", !.op = Null, !.prompt = Null]
       /\ outcome' = Resolved(call.op, d.promise.value)
  ELSE IF call.task = "await" /\ d.promise.state = "rejected"
  THEN /\ series' = NullObj
       /\ decoder' = NoDecoder
       /\ call' = [call EXCEPT !.task = "idle", !.op = Null, !.prompt = Null]
       /\ outcome' = Rejected(call.op, d.promise.value.error)
  ELSE /\ decoder' = d
       /\ outcome' = NoOutcome
       /\ UNCHANGED <<series, call>>

\* the decoder after a handler ran; with it, the continuation of ask/act once
\* the promise has settled (the settled decoder of a call is unreachable garbage)
Settled(d) ==
  IF call.task = "await" /\ d.promise.state = "fulfilled"
  THEN /\ series' = d.promise.value.series
       /\ decoder' = NoDecoder
       /\ call' = [call EXCEPT !.task = "idle", !.op = Null, !.prompt = Null]
       /\ outcome' = Resolved(call.op, d.promise.value)
  ELSE IF call.task = "await" /\ d.promise.state = "rejected"
  THEN /\ series' = series
       /\ decoder' = NoDecoder
       /\ call' = [call EXCEPT !.task = "idle", !.op = Null, !.prompt = Null]
       /\ outcome' = Rejected(call.op, d.promise.value.error)
  ELSE /\ decoder' = d
       /\ outcome' = NoOutcome
       /\ UNCHANGED <<series, call>>

\* a 'data' event of stdout: first the hook wired at boot, then the decoder
StdoutData(p, chunk) ==
  /\ LoopFree
  /\ IsStream(p)
  /\ streams[p].state = "open"
  /\ effects' = IF p = 0 THEN <<>>
                ELSE CallEach("data", dataListeners, p, BufferToString(chunk))
  /\ IF Bound(p)
     THEN /\ decoder.chunks < MaxChunks
          /\ LET heard == [decoder EXCEPT !.chunks = @ + 1]
                 taken == [heard EXCEPT !.received = @ \o chunk]
             IN Settled(IF decoder.attached THEN onDataHandler(taken, chunk) ELSE heard)
     ELSE /\ outcome' = NoOutcome
          /\ UNCHANGED <<series, call, decoder>>
  /\ UNCHANGED <<instance, lastTaskMode, childProcess, ptyProcess,
                 dataListeners, exitListeners, procs, streams>>

StdoutEnd(p) ==
  /\ LoopFree
  /\ IsStream(p) /\ Bound(p)
  /\ streams[p].state = "open"
  /\ streams' = [streams EXCEPT ![p].state = "ended"]
  /\ Settled(IF decoder.attached THEN onEndHandler(decoder) ELSE decoder)
  /\ effects' = <<>>
  /\ UNCHANGED <<instance, lastTaskMode, childProcess, ptyProcess,
                 dataListeners, exitListeners, procs>>

StdoutError(p) ==
  /\ LoopFree
  /\ IsStream(p) /\ Bound(p)
  /\ streams[p].state = "open"
  /\ streams' = [streams EXCEPT ![p].state = "errored"]
  /\ Settled(IF decoder.attached THEN onErrorHandler(decoder) ELSE decoder)
  /\ effects' = <<>>
  /\ UNCHANGED <<instance, lastTaskMode, childProcess, ptyProcess,
                 dataListeners, exitListeners, procs>>

\* a 'data' event of stderr of a pipe process, or of a pty: only the hook wired at boot
HookData(p, chunk) ==
  /\ LoopFree
  /\ p \in Pids
  /\ effects' = CallEach("data", dataListeners, p, chunk)
  /\ outcome' = NoOutcome
  /\ UNCHANGED <<handleVars, streams, call, decoder>>

----------------------------------------------------------------------------
(* genBrainCli: terminal.                                                  *)

RawData == {"x"}

\* a terminal.write without the instance guard: it writes to whichever
\* reference is still stored
TerminalWriteUnguarded(data) ==
  /\ CallerIdle
  /\ IF childProcess # 0
     THEN /\ effects' = <<Wrote(childProcess, "write", data)>>
          /\ outcome' = Resolved("write", NullObj)
     ELSE IF ptyProcess # 0
     THEN /\ effects' = <<Wrote(ptyProcess, "write", data)>>
          /\ outcome' = Resolved("write", NullObj)
     ELSE /\ outcome' = Rejected("write", "process handle not available")
          /\ effects' = <<>>
  /\ UNCHANGED <<handleVars, streams, call, decoder>>

TerminalWrite(data) ==
  /\ CallerIdle
  /\ IF instance = NullObj
     THEN /\ outcome' = Rejected("write", "no live process")
          /\ effects' = <<>>
     ELSE IF instance.mode = "dispatch" /\ childProcess # 0
     THEN /\ effects' = <<Wrote(childProcess, "write", data)>>
          /\ outcome' = Resolved("write", NullObj)
     ELSE IF instance.mode = "interact" /\ ptyProcess # 0
     THEN /\ effects' = <<Wrote(ptyProcess, "write", data)>>
          /\ outcome' = Resolved("write", NullObj)
     ELSE /\ outcome' = Rejected("write", "process handle not available")
          /\ effects' = <<>>
  /\ UNCHANGED <<handleVars, streams, call, decoder>>

Sizes == {<<80, 24>>}

TerminalResize(size) ==
  /\ CallerIdle
  /\ effects' = IF ptyProcess # 0 THEN <<Resized(ptyProcess, size)>> ELSE <<>>
  /\ outcome' = Resolved("resize", NullObj)
  /\ UNCHANGED <<handleVars, streams, call, decoder>>

\* terminal.onData(cb): a callback is named by its position in the registry
OnData ==
  /\ CallerIdle
  /\ Len(dataListeners) < MaxListeners
  /\ dataListeners' = Append(dataListeners, Len(dataListeners) + 1)
  /\ outcome' = NoOutcome
  /\ effects' = <<>>
  /\ UNCHANGED <<instance, series, lastTaskMode, childProcess, ptyProcess,
                 exitListeners, procs, streams, call, decoder>>

OnExit ==
  /\ CallerIdle
  /\ Len(exitListeners) < MaxListeners
  /\ exitListeners' = Append(exitListeners, Len(exitListeners) + 1)
  /\ outcome' = NoOutcome
  /\ effects' = <<>>
  /\ UNCHANGED <<instance, series, lastTaskMode, childProcess, ptyProcess,
                 dataListeners, procs, streams, call, decoder>>

----------------------------------------------------------------------------
(* The handle: every operation of the caller and every event of the loop.  *)

\* the operations and events of the handle, with processes that write these chunks
Handle(chunks) ==
  \/ BootDispatch
  \/ BootInteractBegin
  \/ BootInteractSpawn
  \/ Kill
  \/ Ask(PromptOf(call.count + 1))
  \/ Act(PromptOf(call.count + 1))
  \/ TaskResume
  \/ \E p \in Pids : ProcExit(p)
  \/ \E p \in Pids : \E chunk \in chunks : StdoutData(p, chunk)
  \/ \E p \in Pids : StdoutEnd(p)
  \/ \E p \in Pids : StdoutError(p)

Next == Handle(CliChunks)

Spec == Init /\ [][Next]_vars

----------------------------------------------------------------------------
(* The handle with its terminal surface as well.                           *)

\* here a process answers every turn with one result line
TerminalChunks == {ResultS1 \o "\n"}

NextTerminal ==
  \/ Handle(TerminalChunks)
  \/ \E data \in RawData : TerminalWrite(data)
  \/ \E size \in Sizes : TerminalResize(size)
  \/ OnData
  \/ OnExit
  \/ \E p \in Pids : \E chunk \in RawData : HookData(p, chunk)

SpecTerminal == Init /\ [][NextTerminal]_vars

----------------------------------------------------------------------------
(* A direct call of getOneBrainOutputFromStreamJson on a caller-supplied   *)
(* Readable, as in the unit tests: the inputs are drawn by the initial     *)
(* state, the stream's events drive the decoder.                           *)

Exchange1 == BrainExchange("exchange-1-hash", "first prompt", "first output", Null)

\* prior series handed to the call
PriorSeries ==
  { NullObj,
    BrainSeries("series-hash", "s1", <<BrainEpisode("episode-1-hash", "s1", <<Exchange1>>)>>),
    BrainSeries("series-hash", "s2",
                <<BrainEpisode("episode-1-hash", "s1", <<Exchange1>>),
                  BrainEpisode("episode-2-hash", "s2", <<Exchange1, Exchange1>>)>>),
    BrainSeries("series-hash", "s1",
                <<BrainEpisode("episode-1-hash", "s1", <<Exchange1>>),
                  BrainEpisode("episode-2-hash", "s1/1", <<Exchange1>>)>>),
    BrainSeries("series-hash", Null, <<BrainEpisode("episode-1-hash", Null, <<Exchange1>>)>>),
    BrainSeries("series-hash", "s2", <<>>) }

Prompts == {"p", "q"}

InitDecoder ==
  /\ instance = NullObj
  /\ series = NullObj
  /\ lastTaskMode = Null
  /\ childProcess = 0
  /\ ptyProcess = 0
  /\ dataListeners = <<>>
  /\ exitListeners = <<>>
  /\ procs = <<>>
  /\ streams = [p \in 0..MaxProcs |-> OpenStream]
  /\ call = IdleCall
  /\ outcome = NoOutcome
  /\ effects = <<>>
  /\ \E prompt \in Prompts : \E seriesPrior \in PriorSeries :
       decoder = NewDecoder(prompt, 0, seriesPrior)

NextDecoder ==
  \/ \E chunk \in ReadableChunks : StdoutData(0, chunk)
  \/ StdoutEnd(0)
  \/ StdoutError(0)

SpecDecoder == InitDecoder /\ [][NextDecoder]_vars

----------------------------------------------------------------------------
(* Properties of the supervisor.                                           *)

\* the process p was superseded: it still runs, boot has since stored another
\* process as the current instance, and p is not that instance
Superseded(p) ==
  /\ p \in Pids
  /\ ~procs[p].exited
  /\ instance # NullObj
  /\ instance.pid # p

\* C1: when the exit notification of a superseded process is delivered, it is
\* discarded: executor.instance and the stored reference of the replacement
\* stay as they were.
C1_SupersededExitDiscarded ==
  [][\A p \in Pids :
       (Superseded(p) /\ ProcExit(p))
         => /\ instance' = instance
            /\ instance.mode = "dispatch" => childProcess' = instance.pid
            /\ instance.mode = "interact" => ptyProcess' = instance.pid]_vars

\* C1, the pair (dispatch, interact): a pipe process superseded by a pty
\* process is still the stored childProcess, so its exit will be honoured
C1_DispatchThenInteract ==
  /\ Len(procs) = 2
  /\ procs[1].kind = "pipe" /\ procs[2].kind = "pty"
  /\ Superseded(1)
  /\ childProcess = 1 /\ ptyProcess = 2

\* C2: every message ask writes goes to a process spawned with the read-only
\* allow-list, and every message act writes goes to a process spawned with
\* the escalated allow-list.
C2_WriteReachesMatchingCategory ==
  \A i \in 1..Len(effects) :
    effects[i].effect = "write" =>
      /\ effects[i].by = "ask" =>
           AllowedToolsOf(procs[effects[i].pid].args) = Join(TOOLS_ASK, ",")
      /\ effects[i].by = "act" =>
           AllowedToolsOf(procs[effects[i].pid].args) = Join(TOOLS_ACT, ",")

\* C2: act has written to a process that replaced a read-only one
C2_ActWroteAfterRespawn ==
  /\ Len(procs) >= 2
  /\ AllowedToolsOf(procs[1].args) = Join(TOOLS_ASK, ",")
  /\ \E i \in 1..Len(effects) :
       /\ effects[i].effect = "write" /\ effects[i].by = "act"
       /\ effects[i].pid = Len(procs)

\* C10: a step changes the durable series only when it completes an ask or
\* act, and then to the series of the output it resolves with; boot, kill,
\* terminal write and resize, listener registration and exit notifications
\* leave the series as it was.
C10_SeriesChangesOnlyAtCompletion ==
  [][series' # series =>
       /\ call.task = "await" /\ call'.task = "idle"
       /\ outcome'.status = "resolved" /\ outcome'.op \in {"ask", "act"}
       /\ series' = outcome'.value.series]_vars

\* C10: boot(interact), boot(dispatch), boot(interact) around a resolved ask:
\* the series it left is still held, with callbacks registered
C10_SeriesHeldAcrossReboots ==
  /\ Len(procs) = 3
  /\ procs[1].kind = "pty" /\ procs[2].kind = "pipe" /\ procs[3].kind = "pty"
  /\ instance # NullObj /\ instance.mode = "interact"
  /\ series # NullObj /\ series.exid # Null
  /\ dataListeners # <<>> /\ exitListeners # <<>>

----------------------------------------------------------------------------
(* Properties of the decoder, stated over what the stream delivered.       *)

HasResult(obs) == \E i \in 1..Len(obs) : obs[i].type = "result"

FirstResult(obs) ==
  obs[CHOOSE i \in 1..Len(obs) :
        obs[i].type = "result" /\ \A j \in 1..(i - 1) : obs[j].type # "result"]

\* the text of one envelope: its assistant text blocks, or its text_delta
RECURSIVE BlockTexts(_)
BlockTexts(blocks) ==
  IF Len(blocks) = 0 THEN ""
  ELSE (IF blocks[1].type = "text" /\ blocks[1].text # Null THEN blocks[1].text ELSE "")
         \o BlockTexts(Tail(blocks))

EnvelopeText(e) ==
  IF e.type = "assistant" THEN BlockTexts(e.content)
  ELSE IF e.type = "stream_event" /\ e.event.present
          /\ e.event.type = "content_block_delta" /\ e.event.delta_type = "text_delta"
          /\ e.event.delta_text # Null
  THEN e.event.delta_text
  ELSE ""

\* the incremental text of the envelopes, in arrival order
RECURSIVE ObservedText(_)
ObservedText(obs) ==
  IF Len(obs) = 0 THEN "" ELSE EnvelopeText(obs[1]) \o ObservedText(Tail(obs))

\* the last session id carried by an envelope of one of the given types
RECURSIVE LastSessionId(_, _)
LastSessionId(obs, types) ==
  IF Len(obs) = 0 THEN Null
  ELSE LET e == obs[Len(obs)]
       IN IF e.type \in types /\ e.session_id # Null THEN e.session_id
          ELSE LastSessionId(SubSeq(obs, 1, Len(obs) - 1), types)

\* a compaction boundary was delivered, in either of its two shapes
ObservedCompaction(obs) ==
  \E i \in 1..Len(obs) :
    \/ obs[i].type = "compact_boundary"
    \/ obs[i].type = "system" /\ obs[i].subtype = "compact_boundary"

\* the call's session id, prior episodes and output once it has resolved
CallSessionId == LastSessionId(decoder.observed, {"system", "assistant", "result"})
CallCompaction == ObservedCompaction(decoder.observed)
PriorEpisodes == IF decoder.seriesPrior = NullObj THEN <<>> ELSE decoder.seriesPrior.episodes
CallOutput == decoder.promise.value
CallResolved == decoder # NoDecoder /\ decoder.promise.state = "fulfilled"

\* an exchange list that ends with this call's exchange
IsNewExchange(x) == x.input = decoder.prompt /\ x.output = CallOutput.output

\* C3: once a result line has been processed the promise is fulfilled, by one
\* call of resolve and none of reject, with the output of the first result;
\* and no step changes a settled promise or calls resolve or reject again.
C3_SettlesOnceAtFirstResult ==
  [][/\ HasResult(decoder'.observed) =>
          /\ decoder'.promise.state = "fulfilled"
          /\ decoder'.onResolveCalls = 1
          /\ decoder'.onRejectCalls = 0
          /\ FirstResult(decoder'.observed).result # Null =>
               decoder'.promise.value.output = FirstResult(decoder'.observed).result
     /\ decoder.promise.state # "pending" =>
          /\ decoder'.promise = decoder.promise
          /\ decoder'.onResolveCalls = decoder.onResolveCalls
          /\ decoder'.onRejectCalls = decoder.onRejectCalls]_vars

\* C3: the first decoded envelope was a result, and a further chunk and the
\* end of the stream came after it
C3_EventsAfterResult ==
  /\ CallResolved
  /\ Len(decoder.observed) >= 1 /\ decoder.observed[1].type = "result"
  /\ decoder.chunks >= 2
  /\ streams[0].state = "ended"
  /\ decoder.onResolveCalls = 1

\* C4: when the stream has ended and no result line was processed, the
\* promise is fulfilled; the output is the text of the assistant text blocks
\* and text deltas in arrival order, and the series carries the last session
\* id seen on a system or assistant envelope, or null.
C4_EndWithoutResultFinalizes ==
  (streams[0].state = "ended" /\ ~HasResult(decoder.observed)) =>
    /\ decoder.promise.state = "fulfilled"
    /\ decoder.onRejectCalls = 0
    /\ CallOutput.output = ObservedText(decoder.observed)
    /\ decoder.sessionId = LastSessionId(decoder.observed, {"system", "assistant"})
    /\ CallOutput.series.exid = LastSessionId(decoder.observed, {"system", "assistant"})

\* C4: a stream that delivered text and a session id ended without a result
C4_EndedWithTextAndSession ==
  /\ streams[0].state = "ended" /\ ~HasResult(decoder.observed)
  /\ CallResolved
  /\ CallOutput.output # ""
  /\ CallOutput.series.exid # Null

\* C5: when the stream has errored and no result line was processed before,
\* the promise is rejected with the stream-fault error, resolve was never
\* called, and the settled value carries no exchange, episode or series.
C5_ErrorRejects ==
  (streams[0].state = "errored" /\ ~HasResult(decoder.observed)) =>
    /\ decoder.promise.state = "rejected"
    /\ decoder.promise.value = StreamFaultError
    /\ decoder.onResolveCalls = 0
    /\ decoder.onRejectCalls = 1

\* C5: the stream errored after it had delivered envelopes
C5_ErroredAfterData ==
  /\ streams[0].state = "errored"
  /\ decoder.promise.state = "rejected"
  /\ Len(decoder.observed) >= 1
  /\ decoder.textAccumulated # ""

\* C6: continuation. The latest prior episode has the call's non-null session
\* id and no compaction was flagged: the series keeps its episode count, the
\* latest episode keeps its identifier, and its exchanges are the prior ones
\* followed by the new exchange.
C6_Continuation ==
  (/\ CallResolved
   /\ ~CallCompaction
   /\ CallSessionId # Null
   /\ Len(PriorEpisodes) > 0
   /\ PriorEpisodes[Len(PriorEpisodes)].exid = CallSessionId) =>
    LET before == PriorEpisodes[Len(PriorEpisodes)]
        episodes == CallOutput.series.episodes
        after == episodes[Len(episodes)]
    IN /\ Len(episodes) = Len(PriorEpisodes)
       /\ after.exid = before.exid
       /\ Len(after.exchanges) = Len(before.exchanges) + 1
       /\ SubSeq(after.exchanges, 1, Len(before.exchanges)) = before.exchanges
       /\ IsNewExchange(after.exchanges[Len(after.exchanges)])

\* C6: a call continued the second episode of a two-episode series
C6_ContinuedSecondEpisode ==
  /\ CallResolved /\ ~CallCompaction
  /\ Len(PriorEpisodes) = 2
  /\ PriorEpisodes[2].exid = CallSessionId
  /\ Len(CallOutput.series.episodes[2].exchanges) = 3

\* C7: compaction split. Compaction was flagged, the session id is non-null
\* and the latest prior episode identifier is the session id or starts with
\* the session id and "/": the series has one more episode, whose identifier
\* is "<sessionId>/<prior episode count>" and which holds the new exchange only.
C7_CompactionSplit ==
  (/\ CallResolved
   /\ CallCompaction
   /\ CallSessionId # Null
   /\ Len(PriorEpisodes) > 0
   /\ PriorEpisodes[Len(PriorEpisodes)].exid # Null
   /\ \/ PriorEpisodes[Len(PriorEpisodes)].exid = CallSessionId
      \/ StartsWith(PriorEpisodes[Len(PriorEpisodes)].exid, CallSessionId \o "/")) =>
    LET episodes == CallOutput.series.episodes
        after == episodes[Len(episodes)]
    IN /\ Len(episodes) = Len(PriorEpisodes) + 1
       /\ after.exid = CallSessionId \o "/" \o ToString(Len(PriorEpisodes))
       /\ Len(after.exchanges) = 1
       /\ IsNewExchange(after.exchanges[1])

\* C7: a call split off a third episode after an earlier split
C7_SplitAfterSplit ==
  /\ CallResolved /\ CallCompaction
  /\ Len(PriorEpisodes) = 2
  /\ PriorEpisodes[2].exid = "s1/1"
  /\ Len(CallOutput.series.episodes) = 3
  /\ CallOutput.series.episodes[3].exid = "s1/2"

\* C8: new window. No compaction was flagged and the session id is absent or
\* differs from the latest prior episode identifier: one episode with the
\* session id as identifier and exactly one exchange is appended, and every
\* prior episode is in the result at its index, unchanged.
C8_NewWindow ==
  (/\ CallResolved
   /\ ~CallCompaction
   /\ \/ CallSessionId = Null
      \/ Len(PriorEpisodes) = 0
      \/ PriorEpisodes[Len(PriorEpisodes)].exid # CallSessionId) =>
    LET episodes == CallOutput.series.episodes
    IN /\ Len(episodes) = Len(PriorEpisodes) + 1
       /\ episodes[Len(episodes)].exid = CallSessionId
       /\ Len(episodes[Len(episodes)].exchanges) = 1
       /\ IsNewExchange(episodes[Len(episodes)].exchanges[1])
       /\ \A i \in 1..Len(PriorEpisodes) : episodes[i] = PriorEpisodes[i]

\* C8: a call with a new session id opened a third episode
C8_OpenedThirdEpisode ==
  /\ CallResolved /\ ~CallCompaction
  /\ Len(PriorEpisodes) = 2
  /\ CallSessionId # Null
  /\ PriorEpisodes[2].exid # CallSessionId
  /\ Len(CallOutput.series.episodes) = 3

\* C9: whenever a call has resolved, the identifier of its series is the
\* session id the call observed last (null if it observed none), whichever
\* episode received the exchange and whatever the prior series was named.
C9_SeriesExidIsLastSessionId ==
  CallResolved => CallOutput.series.exid = CallSessionId

\* C9: after a compaction split, the series and the episode that received
\* the exchange have different identifiers
C9_SeriesAndEpisodeDiffer ==
  /\ CallResolved /\ CallCompaction
  /\ decoder.seriesPrior # NullObj
  /\ Len(CallOutput.series.episodes) = Len(PriorEpisodes) + 1
  /\ CallOutput.episode.exid # CallOutput.series.exid
  /\ CallOutput.series.exid = CallSessionId
  /\ CallOutput.series.exid # Null


----------------------------------------------------------------------------
(* Properties of the supervisor: process lifetime and transport refs.      *)

\* C11: the spawn of a replacement process is ordered after the exit of its
\* predecessor: at every step that spawns a process, every process spawned
\* before it has already exited (its exit event was delivered).
C11_SpawnAfterPredecessorExit ==
  [][Len(procs') > Len(procs) => \A p \in Pids : procs[p].exited]_vars

\* a replacement is the current process while its predecessor, signalled by
\* the boot, has not exited yet
C11_ReplacementBesidePredecessor ==
  /\ Len(procs) >= 2
  /\ instance # NullObj
  /\ instance.pid = Len(procs)
  /\ procs[Len(procs) - 1].sigterm
  /\ ~procs[Len(procs) - 1].exited

\* C12: at most one spawned process is alive (spawned and not exited) at any
\* instant, and the handle never holds a pipe-process reference and a
\* pty-process reference at the same time.
C12_SingleProcessSingleTransport ==
  /\ Cardinality({p \in Pids : ~procs[p].exited}) <= 1
  /\ ~(childProcess # 0 /\ ptyProcess # 0)

\* both references are held, each to a process that has not exited
C12_BothTransportsHeld ==
  /\ childProcess # 0
  /\ ptyProcess # 0
  /\ childProcess # ptyProcess
  /\ ~procs[childProcess].exited
  /\ ~procs[ptyProcess].exited

----------------------------------------------------------------------------
(* Properties of the supervisor: rejected calls.                           *)

\* C13: ask or act invoked while the live transport is interact rejects with
\* the execution-state error of the mode guard and has no effect: no write,
\* kill or spawn happens, and the processes, the stored references, the
\* instance, the last task category and the durable series are unchanged.
C13_TaskOnInteractRejected ==
  [][\A op \in {"ask", "act"} :
       (/\ instance # NullObj
        /\ instance.mode = "interact"
        /\ TaskBegin(op, PromptOf(call.count + 1)))
       => /\ outcome' = Rejected(op, "handle is in interact mode")
          /\ effects' = <<>>
          /\ UNCHANGED <<procs, instance, childProcess, ptyProcess,
                         lastTaskMode, series, decoder, call>>]_vars

\* act was rejected by the mode guard on a live pty, after an earlier ask set
\* the category and left a series
C13_ActRejectedOnPty ==
  /\ outcome = Rejected("act", "handle is in interact mode")
  /\ instance # NullObj
  /\ instance.mode = "interact"
  /\ ~procs[instance.pid].exited
  /\ lastTaskMode = "ask"
  /\ series # NullObj

\* C14: ask, act and terminal.write invoked while no process is live
\* (instance is null: before any boot, after kill, after the current process
\* exited) fail with the "no live process" error, leave instance null, spawn
\* nothing, write nothing and leave the series unchanged.
C14_NoLiveProcessRejected ==
  [][instance = NullObj =>
       /\ \A op \in {"ask", "act"} :
            TaskBegin(op, PromptOf(call.count + 1))
            => /\ outcome' = Rejected(op, "no live process")
               /\ effects' = <<>>
               /\ instance' = NullObj
               /\ UNCHANGED <<procs, series>>
       /\ \A data \in RawData :
            TerminalWrite(data)
            => /\ outcome' = Rejected("write", "no live process")
               /\ effects' = <<>>
               /\ instance' = NullObj
               /\ UNCHANGED <<procs, series>>]_vars

\* terminal.write was rejected after kill, while the reference of the killed
\* process is still stored and the process has not exited
C14_WriteRejectedAfterKill ==
  /\ outcome = Rejected("write", "no live process")
  /\ instance = NullObj
  /\ childProcess # 0
  /\ procs[childProcess].sigterm
  /\ ~procs[childProcess].exited

----------------------------------------------------------------------------
(* Properties of the supervisor: kill, listeners, exit notifications.      *)

\* the step just taken was kill() and it signalled a stored process
JustKilled ==
  /\ call.boot = "idle"
  /\ effects # <<>>
  /\ \A i \in 1..Len(effects) : effects[i].effect = "kill"

\* C15: kill() is idempotent and a no-op when nothing is live: before any
\* boot it changes no state and leaves instance null; a kill() right after a
\* kill() leaves the handle as the first one left it; exit callbacks are
\* invoked only in the step in which their process exits, once each, and a
\* process exits once.
C15_KillIdempotent ==
  [][/\ (procs = <<>> /\ Kill)
          => /\ UNCHANGED <<handleVars, streams, call, decoder>>
             /\ instance' = NullObj
             /\ effects' = <<>>
     /\ (JustKilled /\ Kill)
          => /\ UNCHANGED <<handleVars, streams, call, decoder>>
             /\ effects' = effects
     /\ \A i \in 1..Len(effects') :
          effects'[i].effect = "exit"
          => /\ ~procs[effects'[i].pid].exited
             /\ procs'[effects'[i].pid].exited
             /\ \A j \in 1..Len(effects') :
                  (effects'[j].effect = "exit" /\ effects'[j].cb = effects'[i].cb)
                  => j = i
     /\ \A p \in Pids : procs[p].exited => procs'[p].exited]_vars

\* kill() has signalled a live process that an exit callback is registered
\* for; the process has not exited, so a second kill() can follow
C15_KilledBeforeExit ==
  /\ JustKilled
  /\ instance = NullObj
  /\ exitListeners # <<>>
  /\ \E p \in Pids : procs[p].sigterm /\ ~procs[p].exited /\ StoredRef(p) = p

\* seq is listeners with zero or more callbacks appended
Extends(seq, listeners) ==
  /\ Len(seq) >= Len(listeners)
  /\ SubSeq(seq, 1, Len(listeners)) = listeners

\* every callback of listeners is invoked in e with event data of process p
DeliveredToAll(e, registry, listeners, p, data) ==
  \A k \in 1..Len(listeners) :
    \E i \in 1..Len(e) : e[i] = Called(registry, listeners[k], p, data)

\* C16: a registered data or exit callback is never removed or replaced, and
\* every output chunk (stdout or stderr of a pipe process, output of a pty)
\* and every honoured exit of every process spawned under the handle is
\* delivered to every callback registered at that time.
C16_ListenersPersist ==
  [][/\ Extends(dataListeners', dataListeners)
     /\ Extends(exitListeners', exitListeners)
     /\ \A p \in Pids :
          /\ \A chunk \in TerminalChunks :
               \/ DeliveredToAll(effects', "data", dataListeners, p, chunk)
               \/ ~StdoutData(p, chunk)
          /\ \A chunk \in RawData :
               \/ DeliveredToAll(effects', "data", dataListeners, p, chunk)
               \/ ~HookData(p, chunk)
          /\ \/ \E ev \in ExitEvents(p) :
                  DeliveredToAll(effects', "exit", exitListeners, p, ExitInfo(p, ev))
             \/ ~(ProcExit(p) /\ ~ExitDiscarded(p))]_vars

\* a callback registered once has just received a chunk of a pty that was
\* spawned after a pipe process
C16_DataFromLaterPty ==
  /\ Len(procs) >= 2
  /\ procs[1].kind = "pipe"
  /\ \E i \in 1..Len(effects) :
       /\ effects[i].effect = "data"
       /\ effects[i].pid >= 2
       /\ procs[effects[i].pid].kind = "pty"

\* C17: when a process was terminated by kill() (signalled, instance null,
\* its reference still stored) and its exit event arrives, every registered
\* exit callback is invoked exactly once for that exit and nothing else is
\* invoked; afterwards instance is null and the stored reference of that
\* process is cleared.
C17_KilledExitNotifiesOnce ==
  [][\A p \in Pids :
       (/\ procs[p].sigterm
        /\ instance = NullObj
        /\ StoredRef(p) = p
        /\ ProcExit(p))
       => /\ Len(effects') = Len(exitListeners)
          /\ \A k \in 1..Len(exitListeners) :
               /\ effects'[k].effect = "exit"
               /\ effects'[k].cb = exitListeners[k]
               /\ effects'[k].pid = p
          /\ instance' = NullObj
          /\ procs[p].kind = "pipe" => childProcess' = 0
          /\ procs[p].kind = "pty" => ptyProcess' = 0]_vars

\* an exit callback has just been told that the only process spawned so far
\* died by the SIGTERM of kill(); no process is current, no reference stored
C17_NotifiedOfKilledProcess ==
  /\ Len(procs) = 1
  /\ call.boot = "idle"
  /\ exitListeners # <<>>
  /\ instance = NullObj
  /\ childProcess = 0
  /\ ptyProcess = 0
  /\ Len(effects) = Len(exitListeners)
  /\ effects[1].effect = "exit"
  /\ effects[1].data.signal = "SIGTERM"
  /\ procs[effects[1].pid].exited

----------------------------------------------------------------------------
(* Properties of the supervisor: the durable series across turns.          *)

\* the step resolves an ask or act
TurnResolves == outcome'.status = "resolved" /\ outcome'.op \in {"ask", "act"}

\* C18: a resolved turn that reports the session id of the preceding turn
\* (the identifier of the series the handle holds) and observed no compaction
\* is appended to the episode that received the preceding turn: the episode
\* count does not grow and the latest episode gains exactly this exchange.
C18_SameSessionAppends ==
  [][(/\ TurnResolves
      /\ series # NullObj
      /\ series.exid # Null
      /\ outcome'.value.series.exid = series.exid
      /\ ~CallCompaction)
     => LET before == series.episodes[Len(series.episodes)]
            after == series'.episodes[Len(series'.episodes)]
        IN /\ Len(series'.episodes) = Len(series.episodes)
           /\ Len(after.exchanges) = Len(before.exchanges) + 1
           /\ SubSeq(after.exchanges, 1, Len(before.exchanges)) = before.exchanges]_vars

\* three turns of session "s1", the second with a compaction: the third turn
\* opened a third episode, again with the identifier "s1"
C18_ThirdEpisodeAfterSplit ==
  /\ series # NullObj
  /\ Len(series.episodes) = 3
  /\ series.episodes[1].exid = "s1"
  /\ series.episodes[2].exid = "s1/1"
  /\ series.episodes[3].exid = "s1"
  /\ \A i \in 1..3 : Len(series.episodes[i].exchanges) = 1

\* the episodes of a series; none for the null series
EpisodesOf(s) == IF s = NullObj THEN <<>> ELSE s.episodes

\* after is before with the exchange x appended to its latest episode
AppendedToLatest(before, after, x) ==
  /\ Len(before) > 0
  /\ Len(after) = Len(before)
  /\ SubSeq(after, 1, Len(before) - 1) = SubSeq(before, 1, Len(before) - 1)
  /\ after[Len(after)].exid = before[Len(before)].exid
  /\ after[Len(after)].exchanges = Append(before[Len(before)].exchanges, x)

\* after is before followed by one new episode that holds the exchange x only
OpenedEpisode(before, after, x) ==
  /\ Len(after) = Len(before) + 1
  /\ SubSeq(after, 1, Len(before)) = before
  /\ after[Len(after)].exchanges = <<x>>

\* C19: in the step in which ask or act resolves, the handle's series becomes
\* exactly the series of the returned output; the decoder was bound with the
\* series the handle held; and the returned series is that series reconciled
\* with one new exchange (this call's prompt and returned output), either
\* appended to its latest episode or alone in one new episode, which is the
\* episode the output returns.
C19_SeriesIsReturnedReconciliation ==
  [][TurnResolves =>
       LET value == outcome'.value
           before == EpisodesOf(decoder.seriesPrior)
           after == value.series.episodes
           latest == after[Len(after)]
           x == latest.exchanges[Len(latest.exchanges)]
       IN /\ series' = value.series
          /\ decoder.seriesPrior = series
          /\ x.input = call.prompt
          /\ x.output = value.output
          /\ value.episode = latest
          /\ \/ AppendedToLatest(before, after, x)
             \/ OpenedEpisode(before, after, x)]_vars

\* act has just resolved with the series the handle now holds: two episodes,
\* the second opened by this call after an ask had filled the first
C19_ActResolvedIntoSecondEpisode ==
  /\ outcome.status = "resolved"
  /\ outcome.op = "act"
  /\ series = outcome.value.series
  /\ Len(series.episodes) = 2
  /\ outcome.value.episode = series.episodes[2]
  /\ series.episodes[2].exchanges[1].output = outcome.value.output

----------------------------------------------------------------------------
(* Properties of the decoder: metrics.                                     *)

\* the vendor cost a result envelope reports: cost_usd, else total_cost
VendorCost(e) == CoalesceNum(e.cost_usd, e.total_cost)

\* the vendor cost of the terminal event of the call, if it had one
CallVendorCost ==
  IF HasResult(decoder.observed) THEN VendorCost(FirstResult(decoder.observed))
  ELSE NullNum

\* C20: once the call has resolved, if its terminal event reported a vendor
\* cost (zero included) the total cost is that value, whatever the token
\* counters are; otherwise the total is the sum of the four derived costs,
\* each the rate of its category times the token counter of its category.
C20_TotalCost ==
  CallResolved =>
    LET cash == CallOutput.metrics.cash
        tokens == CallOutput.metrics.tokens
        num(price) == getOneNumericFromIsoPrice(price)
    IN /\ num(cash.input) = num(SpecRates.input) * tokens.input
       /\ num(cash.output) = num(SpecRates.output) * tokens.output
       /\ num(cash.cacheGet) = num(SpecRates.cacheGet) * tokens.cacheGet
       /\ num(cash.cacheSet) = num(SpecRates.cacheSet) * tokens.cacheSet
       /\ CallVendorCost # NullNum => cash.total = getOneIsoPrice(CallVendorCost)
       /\ CallVendorCost = NullNum =>
            num(cash.total) = num(cash.input) + num(cash.output)
                                + num(cash.cacheGet) + num(cash.cacheSet)

\* the terminal event reported a vendor cost of zero after tokens had been
\* counted: the total is zero although the derived costs are not
C20_VendorZeroOverTokens ==
  /\ CallResolved
  /\ CallVendorCost = 0
  /\ CallOutput.metrics.tokens.input > 0
  /\ CallOutput.metrics.cash.total = getOneIsoPrice(0)
  /\ CallOutput.metrics.cash.input # getOneIsoPrice(0)

----------------------------------------------------------------------------
(* Properties of the decoder: lines that carry nothing.                    *)

\* the accumulators of the closure
Accumulators(d) ==
  <<d.textAccumulated, d.sessionId, d.tokensInput, d.tokensOutput, d.tokensCacheGet,
    d.tokensCacheSet, d.costUsd, d.durationMs, d.resultText, d.compactionDetected>>

\* d1 has the accumulators and the settlement of d: nothing was finalized,
\* rejected or detached in between
Unmoved(d, d1) ==
  /\ Accumulators(d1) = Accumulators(d)
  /\ d1.promise = d.promise
  /\ d1.resolved = d.resolved
  /\ d1.attached = d.attached
  /\ d1.onResolveCalls = d.onResolveCalls
  /\ d1.onRejectCalls = d.onRejectCalls

\* lines that are empty, blank, not JSON (diagnostic bleed, a cut-off
\* envelope) or an envelope of a kind processLine does not know
IgnoredLines ==
  {"", "  \r", "warn: bleed", SubSeq(ResultS1, 1, 9), Json(EnvUser("s2"))}

\* chunks of the Readable that are one such line
IgnoredChunks == {"\n", "  \r\n", "warn: bleed\n", Json(EnvUser("s2")) \o "\n"}

\* C21: processing a line that is empty, not valid JSON or an envelope of an
\* unrecognized kind leaves every accumulator unchanged and neither finalizes
\* nor rejects: for processLine applied to any decoder state, and for the
\* data event that delivers such a line to a decoder with an empty buffer,
\* after which nothing is returned or thrown to the caller.
C21_IgnoredLineChangesNothing ==
  [][decoder # NoDecoder =>
       /\ \A line \in IgnoredLines : Unmoved(decoder, processLine(decoder, line))
       /\ \A chunk \in IgnoredChunks :
            (decoder.buffer = "" /\ StdoutData(0, chunk))
            => /\ Unmoved(decoder, decoder')
               /\ decoder'.buffer = ""
               /\ outcome' = NoOutcome]_vars

\* two chunks were delivered, one of them an envelope of an unknown kind
\* that carries a session id; the call is pending with nothing accumulated
C21_PendingAfterNoise ==
  /\ decoder # NoDecoder
  /\ decoder.chunks = 2
  /\ Len(decoder.observed) = 1
  /\ decoder.observed[1].type = "user"
  /\ decoder.observed[1].session_id # Null
  /\ decoder.promise.state = "pending"
  /\ decoder.buffer = ""
  /\ Accumulators(decoder) = Accumulators(NewDecoder(decoder.prompt, 0, decoder.seriesPrior))

----------------------------------------------------------------------------
(* The argument builders on a handle whose durable series the caller has   *)
(* assigned through memory.series before the first boot: boots, kills and  *)
(* exits only, so every argv is built from that series.                    *)

\* series a caller can hand over: none, one without identifier, one with an
\* empty identifier, one with a session id
ArgSeries ==
  { NullObj,
    BrainSeries("h", Null, <<>>),
    BrainSeries("h", "", <<>>),
    BrainSeries("h", "s1", <<>>) }

InitArgs ==
  /\ instance = NullObj
  /\ series \in ArgSeries
  /\ lastTaskMode = Null
  /\ childProcess = 0
  /\ ptyProcess = 0
  /\ dataListeners = <<>>
  /\ exitListeners = <<>>
  /\ procs = <<>>
  /\ streams = [p \in 0..MaxProcs |-> OpenStream]
  /\ call = IdleCall
  /\ decoder = NoDecoder
  /\ outcome = NoOutcome
  /\ effects = <<>>

NextArgs ==
  \/ BootDispatch
  \/ BootInteractBegin
  \/ BootInteractSpawn
  \/ Kill
  \/ \E p \in Pids : ProcExit(p)

SpecArgs == InitArgs /\ [][NextArgs]_vars

\* the positions of the resume flag in an argv
ResumeFlags(args) == {i \in 1..Len(args) : args[i] = "--resume"}

\* argv ends with the resume flag followed by exid, and has no other resume flag
ResumesWith(args, exid) ==
  /\ Len(args) >= 2
  /\ ResumeFlags(args) = {Len(args) - 1}
  /\ args[Len(args)] = exid

\* C22 as stated: the argv of every spawned process, pipe or pty, has the
\* resume flag followed by the series identifier if and only if the series
\* exists and its identifier is non-null; otherwise it has no resume flag.
C22_ResumeIffNonNull ==
  \A p \in Pids :
    IF series # NullObj /\ series.exid # Null
    THEN ResumesWith(procs[p].args, series.exid)
    ELSE ResumeFlags(procs[p].args) = {}

\* C22: the argv of every spawned process, pipe or pty, has the resume flag
\* followed by the series identifier if and only if the series exists and
\* its identifier is neither null nor the empty string; otherwise it has no
\* resume flag.
C22_ResumeIffNonEmpty ==
  \A p \in Pids :
    IF series # NullObj /\ series.exid # Null /\ series.exid # ""
    THEN ResumesWith(procs[p].args, series.exid)
    ELSE ResumeFlags(procs[p].args) = {}

\* a pipe process and a pty were spawned for a series whose identifier is the
\* empty string: neither argv has a resume flag
C22_EmptyIdentifierNoResume ==
  /\ series # NullObj
  /\ series.exid = ""
  /\ \E p \in Pids : procs[p].kind = "pipe" /\ ResumeFlags(procs[p].args) = {}
  /\ \E p \in Pids : procs[p].kind = "pty" /\ ResumeFlags(procs[p].args) = {}

----------------------------------------------------------------------------
(* Properties of the supervisor: what a termination request clears.        *)

\* the exit event of process p is delivered in this step
ExitDelivered(p) == p \in Pids /\ ~procs[p].exited /\ procs'[p].exited

\* C23 as stated: executor.instance and the stored process references are
\* cleared only in the step that delivers the exit event of the process they
\* refer to; a termination request clears neither.
C23_ClearedOnlyByOwnExit ==
  [][/\ (instance # NullObj /\ instance' = NullObj) => ExitDelivered(instance.pid)
     /\ (childProcess # 0 /\ childProcess' = 0) => ExitDelivered(childProcess)
     /\ (ptyProcess # 0 /\ ptyProcess' = 0) => ExitDelivered(ptyProcess)]_vars

\* C23: a stored process reference is cleared only in the step that delivers
\* the exit event of the process it refers to, and a termination request
\* (kill(), the pre-kill step of boot) leaves the references of the processes
\* it signals stored or replaces one by the new process; executor.instance,
\* though, is null right after the request.
C23_RefsClearedOnlyByOwnExit ==
  [][/\ (childProcess # 0 /\ childProcess' = 0) => ExitDelivered(childProcess)
     /\ (ptyProcess # 0 /\ ptyProcess' = 0) => ExitDelivered(ptyProcess)
     /\ (Kill \/ BootInteractBegin)
          => /\ instance' = NullObj
             /\ UNCHANGED <<childProcess, ptyProcess>>
             /\ \A p \in Pids : procs'[p].exited = procs[p].exited]_vars

\* kill() has signalled a live pty: instance is null at once while the pty
\* reference is still stored and the pty has not exited
C23_PtyKilledRefStored ==
  /\ JustKilled
  /\ instance = NullObj
  /\ ptyProcess # 0
  /\ procs[ptyProcess].kind = "pty"
  /\ procs[ptyProcess].sigterm
  /\ ~procs[ptyProcess].exited

----------------------------------------------------------------------------
(* Properties of the supervisor: data events of superseded processes.      *)

\* C24: an output chunk emitted by a process that has been superseded by a
\* later boot is not delivered to the registered data callbacks: no step
\* invokes a data callback for a process that is superseded.
C24_SupersededDataNotDelivered ==
  [][\A i \in 1..Len(effects') :
       effects'[i].effect = "data" => ~Superseded(effects'[i].pid)]_vars

\* a data callback has just received a chunk of process 1 while process 2,
\* spawned by a later boot, is the current instance
C24_ChunkOfSupersededDelivered ==
  /\ Len(procs) >= 2
  /\ instance # NullObj
  /\ instance.pid = 2
  /\ ~procs[1].exited
  /\ \E i \in 1..Len(effects) : effects[i].effect = "data" /\ effects[i].pid = 1

----------------------------------------------------------------------------
(* Properties of the decoder: framing.                                     *)

\* the decoder that was handed the same bytes in one chunk and then the end
\* of the stream
UnsplitDecoder ==
  onEndHandler(onDataHandler(NewDecoder(decoder.prompt, decoder.stdout, decoder.seriesPrior),
                             decoder.received))

\* C25: line framing is independent of chunking: once the stream has ended,
\* the decoder has settled as a decoder does that received the same bytes in
\* one chunk followed by the end of the stream.
C25_ChunkingIndependent ==
  (decoder # NoDecoder /\ streams[0].state = "ended")
    => decoder.promise = UnsplitDecoder.promise

\* the line was split between the two bytes of a character and the stream
\* ended: the call resolved with two replacement characters as its output
C25_CharacterSplitAcrossChunks ==
  /\ CallResolved
  /\ streams[0].state = "ended"
  /\ decoder.chunks = 2
  /\ decoder.received = WideLine \o "\n"
  /\ CallOutput.output = "??"

----------------------------------------------------------------------------
(* Properties of the decoder: token counters.                              *)

\* the usage report an envelope carries for the counters, if any
UsageOf(e) ==
  IF e.type \in {"assistant", "result"} THEN e.usage
  ELSE IF e.type = "stream_event" /\ e.event.present /\ e.event.type = "message_delta"
  THEN e.event.usage
  ELSE NoUsage

\* C26: after processing an assistant, message_delta or result envelope that
\* carries usage, each of the four counters for which the usage supplies a
\* value equals that value, zero included, whatever was set before.
C26_UsageOverwrites ==
  [][(/\ decoder # NoDecoder
      /\ decoder' # NoDecoder
      /\ Len(decoder'.observed) = Len(decoder.observed) + 1
      /\ UsageOf(decoder'.observed[Len(decoder'.observed)]).present)
     => LET usage == UsageOf(decoder'.observed[Len(decoder'.observed)])
        IN /\ usage.input_tokens # NullNum
                => decoder'.tokensInput = usage.input_tokens
           /\ usage.output_tokens # NullNum
                => decoder'.tokensOutput = usage.output_tokens
           /\ usage.cache_creation_input_tokens # NullNum
                => decoder'.tokensCacheSet = usage.cache_creation_input_tokens
           /\ usage.cache_read_input_tokens # NullNum
                => decoder'.tokensCacheGet = usage.cache_read_input_tokens]_vars

\* an assistant envelope reported one cache-read token, the result after it
\* reported zero: the call resolved with the counter still at one
C26_ZeroLeftEarlierCount ==
  /\ CallResolved
  /\ Len(decoder.observed) = 2
  /\ decoder.observed[1].type = "assistant"
  /\ decoder.observed[1].usage.cache_read_input_tokens = 1
  /\ decoder.observed[2].type = "result"
  /\ decoder.observed[2].usage.cache_read_input_tokens = 0
  /\ CallOutput.metrics.tokens.cacheGet = 1

----------------------------------------------------------------------------
(* The handle while no process answers: boots, kills, exits and the ask    *)
(* and act calls up to their write, with room for one more process.        *)

InitCategory ==
  /\ instance = NullObj
  /\ series = NullObj
  /\ lastTaskMode = Null
  /\ childProcess = 0
  /\ ptyProcess = 0
  /\ dataListeners = <<>>
  /\ exitListeners = <<>>
  /\ procs = <<>>
  /\ streams = [p \in 0..MaxCategoryProcs |-> OpenStream]
  /\ call = IdleCall
  /\ decoder = NoDecoder
  /\ outcome = NoOutcome
  /\ effects = <<>>

NextCategory ==
  \/ BootDispatch
  \/ BootInteractBegin
  \/ BootInteractSpawn
  \/ Kill
  \/ Ask(PromptOf(call.count + 1))
  \/ Act(PromptOf(call.count + 1))
  \/ TaskResume
  \/ \E p \in Pids : ProcExit(p)

SpecCategory == InitCategory /\ [][NextCategory]_vars

\* the spawn effects of a step
SpawnsIn(e) == {i \in 1..Len(e) : e[i].effect = "spawn"}

\* C27: boot(dispatch) spawns one pipe process with the allow-list of the
\* last-used task category, read-only when no task has run; an ask or act
\* that passes its guards makes its own category the last-used one; and the
\* category changes in no other way (but for the first boot(dispatch), which
\* records the default), so a kill or a boot(interact) in between does not
\* alter it.
C27_BootSpawnsLastCategory ==
  [][/\ BootDispatch
          => LET category == IF lastTaskMode # Null THEN lastTaskMode ELSE "ask"
             IN /\ Cardinality(SpawnsIn(effects')) = 1
                /\ \A i \in SpawnsIn(effects') :
                     /\ effects'[i].kind = "pipe"
                     /\ AllowedToolsOf(effects'[i].args) = Join(ConfigTools(category), ",")
                /\ lastTaskMode' = category
     /\ \A op \in {"ask", "act"} :
          (/\ instance # NullObj
           /\ instance.mode = "dispatch"
           /\ TaskBegin(op, PromptOf(call.count + 1)))
          => lastTaskMode' = op
     /\ lastTaskMode' # lastTaskMode
          => \/ lastTaskMode = Null /\ BootDispatch /\ lastTaskMode' = "ask"
             \/ \E op \in {"ask", "act"} :
                  TaskBegin(op, PromptOf(call.count + 1)) /\ lastTaskMode' = op]_vars

\* after an act and then a boot(interact), boot(dispatch) has just spawned the
\* fourth process with the escalated allow-list
C27_EscalatedAfterInteract ==
  /\ Len(procs) = 4
  /\ procs[3].kind = "pty"
  /\ call.task # "rebooted"
  /\ lastTaskMode = "act"
  /\ \E i \in SpawnsIn(effects) :
       /\ effects[i].pid = 4
       /\ effects[i].kind = "pipe"
       /\ AllowedToolsOf(effects[i].args) = Join(TOOLS_ACT, ",")

----------------------------------------------------------------------------
(* Properties of the supervisor: the category reboot and the write.        *)

\* the current process is a pipe process spawned with the allow-list of op
LiveWithCategory(op) ==
  /\ instance # NullObj
  /\ instance.mode = "dispatch"
  /\ ~procs[instance.pid].exited
  /\ AllowedToolsOf(procs[instance.pid].args) = Join(ConfigTools(op), ",")

\* C28: ask (act) invoked while the live pipe process was spawned read-only
\* (escalated) neither terminates nor respawns it: no process is signalled or
\* spawned, and the instance, its pid and the stored reference are the same
\* after the call as before.
C28_NoRebootOnMatch ==
  [][\A op \in {"ask", "act"} :
       (LiveWithCategory(op) /\ TaskBegin(op, PromptOf(call.count + 1)))
       => /\ instance' = instance
          /\ childProcess' = childProcess
          /\ procs' = procs
          /\ \A i \in 1..Len(effects') : effects'[i].effect \notin {"kill", "spawn"}]_vars

\* the third ask has been written to the process the first boot spawned,
\* which is still the only process
C28_ThirdAskSameProcess ==
  /\ Len(procs) = 1
  /\ LiveWithCategory("ask")
  /\ call.count = 3
  /\ effects # <<>>
  /\ effects[1].effect = "write"
  /\ effects[1].by = "ask"
  /\ effects[1].pid = instance.pid

\* the step is the part of ask/act (op) that follows its guards and its
\* category reboot, if it had one: the write and the bind
PassesGuards(op) ==
  \/ /\ instance # NullObj
     /\ instance.mode = "dispatch"
     /\ lastTaskMode = op
     /\ TaskBegin(op, PromptOf(call.count + 1))
  \/ call.op = op /\ TaskResume

\* C29: an ask/act call that passes its guards writes exactly one user
\* message, and nothing else happens in that step: it goes to the stdin of
\* the current pipe process, which has not been sent a termination request;
\* it carries the prompt, and session_id equal to the identifier of the
\* durable series when there is one (none otherwise); the decoder of the call
\* is bound to the stdout of that process with the durable series.  A write by
\* ask/act happens in no other step.
C29_OneMessageToLiveProcess ==
  [][/\ \A op \in {"ask", "act"} :
          PassesGuards(op)
          => /\ Len(effects') = 1
             /\ effects'[1].effect = "write"
             /\ effects'[1].by = op
             /\ instance' # NullObj
             /\ effects'[1].pid = instance'.pid
             /\ procs'[instance'.pid].kind = "pipe"
             /\ ~procs'[instance'.pid].sigterm
             /\ effects'[1].message.type = "user"
             /\ effects'[1].message.content = call'.prompt
             /\ effects'[1].message.session_id
                  = (IF series # NullObj THEN series.exid ELSE Null)
             /\ decoder' = NewDecoder(call'.prompt, instance'.pid, series)
     /\ \A i \in 1..Len(effects') :
          (effects'[i].effect = "write" /\ effects'[i].by \in {"ask", "act"})
          => PassesGuards(effects'[i].by)]_vars

\* act, resumed after its category reboot, has written a message with the
\* session id of the series to the second process, the first being signalled
C29_ActWroteSessionToReplacement ==
  /\ Len(procs) = 2
  /\ procs[1].sigterm
  /\ Len(effects) = 1
  /\ effects[1].effect = "write"
  /\ effects[1].by = "act"
  /\ effects[1].pid = 2
  /\ effects[1].message.session_id = "s1"
  /\ decoder # NoDecoder
  /\ decoder.stdout = 2

\* what each of the three settle paths makes of decoder d
SettlePaths(d) ==
  {onEndHandler(d), onErrorHandler(d)} \cup {onDataHandler(d, c) : c \in CliChunks}

\* handlers on the stream and no detach while pending; none and one detach after
DetachedIffSettled(d) ==
  IF d.promise.state = "pending"
  THEN d.attached /\ d.detachCalls = 0
  ELSE ~d.attached /\ d.detachCalls = 1

\* the decoder a fresh closure makes of the lines d decoded, and of nothing else
ReplayOf(d) ==
  LET lines == [i \in 1..Len(d.observed) |-> Json(d.observed[i])]
      r == ProcessLines(NewDecoder(d.prompt, d.stdout, d.seriesPrior), lines)
  IN IF r.resolved THEN r ELSE finalize(r)

\* C30: a decoder has its handlers on the stream exactly while it is pending:
\* whichever of the result line, the end of the stream and a stream error
\* settles it, the handlers are off afterwards and were taken off once.  With
\* awaited calls a decoder is bound only when no other decoder exists, it
\* starts from empty accumulators, and the output it resolves with is the one
\* a fresh closure computes from the lines of its own call.
C30_DetachedOnceAndFresh ==
  /\ [](decoder # NoDecoder
        => /\ DetachedIffSettled(decoder)
           /\ \A d1 \in SettlePaths(decoder) :
                /\ DetachedIffSettled(d1)
                /\ d1.promise.state = "fulfilled"
                   => d1.promise.value = ReplayOf(d1).promise.value)
  /\ [][(decoder' # NoDecoder /\ decoder'.chunks = 0 /\ decoder' # decoder)
        => /\ decoder = NoDecoder
           /\ Accumulators(decoder') = Accumulators(NewDecoder("", 0, NullObj))]_vars

\* the third call is bound to the process on which the first two resolved,
\* the later of them into a second episode, and has read no line yet
C30_ThirdDecoderAfterCompactedCall ==
  /\ call.count = 3
  /\ call.task = "await"
  /\ Len(procs) = 1
  /\ decoder # NoDecoder
  /\ decoder.attached
  /\ decoder.chunks = 0
  /\ ~decoder.compactionDetected
  /\ series # NullObj
  /\ Len(series.episodes) = 2

----------------------------------------------------------------------------
(* Properties of the durable record.                                       *)

\* the exchanges of a list of episodes, in series order
RECURSIVE ExchangesOf(_)
ExchangesOf(episodes) ==
  IF Len(episodes) = 0 THEN <<>>
  ELSE episodes[1].exchanges \o ExchangesOf(Tail(episodes))

\* C31: in the step in which ask or act resolves, the exchange of the turn is
\* the last exchange of the last episode of the series the handle now holds;
\* that episode is the one returned with the output; every episode before it
\* is an episode of the prior series, unchanged and in place; and the
\* exchanges of the series, in order, are those of the prior series followed
\* by this one exchange.
C31_OneCurrentEpisode ==
  [][TurnResolves =>
       LET before == EpisodesOf(series)
           after == series'.episodes
           latest == after[Len(after)]
           x == latest.exchanges[Len(latest.exchanges)]
       IN /\ Len(after) \in {Len(before), Len(before) + 1}
          /\ Len(after) > 0
          /\ \A i \in 1..(Len(after) - 1) : after[i] = before[i]
          /\ outcome'.value.episode = latest
          /\ x.input = call.prompt
          /\ ExchangesOf(after) = Append(ExchangesOf(before), x)]_vars

\* the third turn has just resolved into the second episode, which the
\* second turn had opened
C31_AppendedToSecondEpisode ==
  /\ outcome.status = "resolved"
  /\ call.count = 3
  /\ series # NullObj
  /\ Len(series.episodes) = 2
  /\ Len(series.episodes[1].exchanges) = 1
  /\ Len(series.episodes[2].exchanges) = 2
  /\ outcome.value.episode = series.episodes[2]

\* the session id a series was reconciled with, or the sentinel
SessionKey(s) == IF s.exid # Null THEN s.exid ELSE "ephemeral"

\* the hashes of series s are those its content gives: the series hash from
\* the session id, the hash of the episode that received the last exchange
\* from the session id and the hashes of its exchanges, each of these
\* exchange hashes from its input and output
HashesCurrent(s) ==
  LET latest == s.episodes[Len(s.episodes)]
  IN /\ s.hash = sha256(SessionKey(s))
     /\ latest.hash = sha256(SessionKey(s) \o ":" \o Join(HashesOf(latest.exchanges), ":"))
     /\ \A i \in 1..Len(latest.exchanges) :
          latest.exchanges[i].hash
            = sha256(latest.exchanges[i].input \o ":" \o latest.exchanges[i].output)

\* C32: the series the handle holds, and the series an ask or act has just
\* resolved with, carry current hashes: the series hash is the digest of the
\* session id, or of 'ephemeral' when it is null; the hash of the episode
\* that received the last exchange is the digest of that key joined by ':'
\* with the hashes of all its exchanges in order.
C32_HashesCurrent ==
  /\ series # NullObj => HashesCurrent(series)
  /\ outcome.status = "resolved" => HashesCurrent(outcome.value.series)

\* the latest episode holds two exchanges of one session
C32_HashOverTwoExchanges ==
  /\ series # NullObj
  /\ series.exid = "s1"
  /\ Len(series.episodes[Len(series.episodes)].exchanges) = 2
  /\ series.episodes[Len(series.episodes)].exchanges[1].input = "p"
  /\ series.episodes[Len(series.episodes)].exchanges[2].input = "q"

----------------------------------------------------------------------------
(* Properties of the terminal surface: resize.                             *)

\* C33: terminal.resize reaches no process unless the handle holds an
\* instance in interact mode.
C33_ResizeOnlyWhenInteract ==
  [][\A size \in Sizes :
       (TerminalResize(size) /\ ~(instance # NullObj /\ instance.mode = "interact"))
       => effects' = <<>>]_vars

\* resize has reached the pty that boot(dispatch) superseded, while the
\* current instance is the pipe process
C33_ResizedSupersededPty ==
  /\ instance # NullObj
  /\ instance.mode = "dispatch"
  /\ Len(effects) = 1
  /\ effects[1].effect = "resize"
  /\ procs[effects[1].pid].kind = "pty"
  /\ procs[effects[1].pid].sigterm

\* C34: the non-null episode identifiers of the series the handle holds are
\* pairwise distinct.
C34_EpisodeExidsDistinct ==
  series # NullObj
  => \A i, j \in 1..Len(series.episodes) :
       (i < j /\ series.episodes[i].exid # Null /\ series.episodes[j].exid # Null)
       => series.episodes[i].exid # series.episodes[j].exid

\* one external session throughout: the episode opened by the turn after a
\* compaction split carries the identifier of the first episode again
C34_UnsuffixedIdentifierTwice ==
  /\ series # NullObj
  /\ series.exid = "s1"
  /\ Len(series.episodes) = 3
  /\ series.episodes[2].exid = "s1/1"
  /\ series.episodes[3].exid = series.episodes[1].exid
  /\ \A i \in 1..3 : StartsWith(series.episodes[i].exid, "s1")

\* the inputs of the exchanges of series s, in series order
InputsOf(s) ==
  LET xs == ExchangesOf(EpisodesOf(s))
  IN [i \in 1..Len(xs) |-> xs[i].input]

\* inputs are the prompts of some of the first n calls, in call order
PromptsInCallOrder(inputs, n) ==
  \E f \in [1..Len(inputs) -> 1..n] :
    /\ \A i \in 1..Len(inputs) : inputs[i] = PromptOf(f[i])
    /\ \A i, j \in 1..Len(inputs) : i < j => f[i] < f[j]

\* C35: the exchanges of the series the handle holds, in series order, start
\* empty and change only in the step in which an ask or act resolves, which
\* appends one exchange whose input is the prompt of that call and leaves the
\* earlier ones as they were; so they are one exchange per resolved call,
\* with the prompts in call order.
C35_RecordAppendOnly ==
  /\ [](PromptsInCallOrder(InputsOf(series), call.count))
  /\ [][IF TurnResolves
        THEN /\ Len(ExchangesOf(EpisodesOf(series')))
                  = Len(ExchangesOf(EpisodesOf(series))) + 1
             /\ SubSeq(ExchangesOf(EpisodesOf(series')), 1,
                       Len(ExchangesOf(EpisodesOf(series))))
                  = ExchangesOf(EpisodesOf(series))
             /\ InputsOf(series') = Append(InputsOf(series), call.prompt)
        ELSE ExchangesOf(EpisodesOf(series')) = ExchangesOf(EpisodesOf(series))]_vars

\* three calls resolved on two processes: a continuation and a new episode
C35_ThreePromptsAcrossReboot ==
  /\ Len(procs) = 2
  /\ call.count = 3
  /\ series # NullObj
  /\ Len(series.episodes) = 2
  /\ InputsOf(series) = <<"p", "q", "p">>

----------------------------------------------------------------------------
(* Properties of the supervisor: session continuity.                       *)

\* C36: once the series the handle holds has a non-null identifier, no step
\* leaves the handle with a null series or a series with a null identifier.
C36_SeriesExidStaysNonNull ==
  [][(series # NullObj /\ series.exid # Null)
     => (series' # NullObj /\ series'.exid # Null)]_vars

\* a second ask has resolved through the end of the stream, with no session
\* id, after an ask that had resolved with one: the series identifier is null
C36_IdentifierLostAtStreamEnd ==
  /\ outcome.status = "resolved"
  /\ outcome.op = "ask"
  /\ call.count = 2
  /\ series # NullObj
  /\ series.exid = Null
  /\ Len(series.episodes) = 2
  /\ series.episodes[1].exid = "s1"
  /\ ~HasResumeExid(series)

----------------------------------------------------------------------------
(* The handle with output streams that do not stay open for ever: the      *)
(* stdout a decoder is bound to eventually emits 'end' or 'error' unless   *)
(* the call settles first (a child process closes its stdout when it       *)
(* terminates, and Node then emits 'end' on the pipe).                     *)

StreamCloses == \E p \in Pids : StdoutEnd(p) \/ StdoutError(p)

\* the caller makes at most this many ask/act calls, on this many processes
MaxClosingCalls == 2
MaxClosingProcs == 2

\* the lines the process prints: a compaction notice and a result
ClosingChunks ==
  { Json(e) \o "\n" : e \in { EnvSystemCompact("s1"),
                              EnvResult("r", "s1", 3, 12, NoUsage) } }

InitClosing ==
  /\ instance = NullObj
  /\ series = NullObj
  /\ lastTaskMode = Null
  /\ childProcess = 0
  /\ ptyProcess = 0
  /\ dataListeners = <<>>
  /\ exitListeners = <<>>
  /\ procs = <<>>
  /\ streams = [p \in 0..MaxClosingProcs |-> OpenStream]
  /\ call = IdleCall
  /\ decoder = NoDecoder
  /\ outcome = NoOutcome
  /\ effects = <<>>

NextClosing ==
  \/ BootDispatch
  \/ Kill
  \/ call.count < MaxClosingCalls /\ Ask(PromptOf(call.count + 1))
  \/ call.count < MaxClosingCalls /\ Act(PromptOf(call.count + 1))
  \/ TaskResume
  \/ \E p \in Pids : ProcExit(p)
  \/ \E p \in Pids : \E chunk \in ClosingChunks : StdoutData(p, chunk)
  \/ StreamCloses

SpecClosing == InitClosing /\ [][NextClosing]_vars /\ WF_vars(StreamCloses)

\* an ask/act of the caller awaits its decoder, which is bound to a stream
\* that has not emitted 'end' or 'error' yet
Awaits ==
  /\ call.task = "await"
  /\ decoder # NoDecoder
  /\ streams[decoder.stdout].state = "open"

\* C37: every ask/act that has written its message and awaits its decoder
\* on a stream that is still open eventually settles, whatever happens to
\* the process meanwhile, given that the stream does not stay open for ever.
C37_WrittenCallSettles == Awaits ~> (call.task = "idle")

\* the only process was killed during the call, and the call has resolved
C37_SettledAfterKill ==
  /\ outcome.status = "resolved"
  /\ outcome.op \in {"ask", "act"}
  /\ outcome.value.output = ""
  /\ call.task = "idle"
  /\ Len(procs) = 1
  /\ procs[1].sigterm
  /\ streams[1].state = "ended"

----------------------------------------------------------------------------
(* Properties of the supervisor: failed turns.                             *)

\* the step rejects an ask or act
TurnRejects == outcome'.status = "rejected" /\ outcome'.op \in {"ask", "act"}

\* C38: in the step in which ask or act rejects, by a guard or by a fault of
\* the stream its decoder reads, the series of the handle stays what it is;
\* when a decoder was bound, that is the series the call started with.
C38_RejectedTurnKeepsSeries ==
  [][TurnRejects
     => /\ series' = series
        /\ decoder # NoDecoder => series' = decoder.seriesPrior]_vars

\* the second call has just rejected on a stream error; the series holds the
\* one exchange of the first call
C38_RejectedAfterResolvedTurn ==
  /\ outcome.status = "rejected"
  /\ outcome.op \in {"ask", "act"}
  /\ outcome.value = StreamFaultError
  /\ call.count = 2
  /\ series # NullObj
  /\ series.exid = "s1"
  /\ Len(ExchangesOf(series.episodes)) = 1

----------------------------------------------------------------------------
(* Properties of the handle: the instance and its transport.               *)

\* C39: an instance is never held without the process reference of its
\* transport, and that reference is the process of the instance: a pipe
\* process for mode dispatch, a pty for mode interact.  So terminal.write
\* never fails with 'process handle not available'.
C39_InstanceHasTransport ==
  /\ instance # NullObj
     => /\ instance.mode = "dispatch"
           => (childProcess = instance.pid /\ procs[childProcess].kind = "pipe")
        /\ instance.mode = "interact"
           => (ptyProcess = instance.pid /\ procs[ptyProcess].kind = "pty")
  /\ ~(outcome.op = "write" /\ outcome.status = "rejected"
       /\ outcome.value.error = "process handle not available")

\* terminal.write has reached the pty of the instance while the reference to
\* the pipe process it superseded is still stored
C39_WroteToPtyBesideStalePipe ==
  /\ instance # NullObj
  /\ instance.mode = "interact"
  /\ ptyProcess = instance.pid
  /\ childProcess # 0
  /\ outcome.op = "write"
  /\ outcome.status = "resolved"
  /\ Len(effects) = 1
  /\ effects[1].pid = ptyProcess

====
